---- MODULE Spec2Model ----
(***************************************************************************)
(* MarkBridge (src/src/App.vue): the text <-> Markdown conversion core and *)
(* the kind detector.  A string is a sequence of one-character strings, so *)
(* splitting, trimming, quoting and the regular expressions of the source  *)
(* are computed character by character.                                    *)
(***************************************************************************)
EXTENDS Integers, Sequences, FiniteSets, TLC

VARIABLES pc, fileName, text, table, csv, markdown, tableAgain,
          blocks, blocksAgain, slides, kind, html, outline, slidesAgain,
          conversionDirection, sourceKind, targetKind, sourceText, inputFileName,
          toastMessage, isFetchingRemote, isUsingSample, remoteUrl,
          file, response, watcherQueued

\* the refs of the component, the file being read, the response being awaited
\* and the queued job of the watcher
ui == <<conversionDirection, sourceKind, targetKind, sourceText, inputFileName,
        toastMessage, isFetchingRemote, isUsingSample, remoteUrl,
        file, response, watcherQueued>>

vars == <<pc, fileName, text, table, csv, markdown, tableAgain,
          blocks, blocksAgain, slides, kind, html, outline, slidesAgain, ui>>

(***************************************************************************)
(* Bounds of the checked inputs.                                           *)
(***************************************************************************)
MaxTableLen == 5
MaxTableCells == 4
MaxDocLen == 4
MaxDocLines == 3
MaxNameDots == 1
MaxContentLen == 4
MaxCueLen == 2
MaxBlankLen == 4
MaxSlideLen == 4
MaxSlideLines == 3
MaxOutlineLen == 4
MaxMdLen == 5
MaxMdLines == 4
MaxHtmlLen == 5
MaxHtmlLines == 4
MaxOutlineLines == 4

\* every string of at most n characters of the alphabet A
Str(n, A) == UNION {[1..k -> A] : k \in 0..n}

(***************************************************************************)
(* String primitives of the JavaScript runtime, as the source uses them.   *)
(***************************************************************************)
\* the characters String.prototype.trim strips and \s matches
WhiteSpace == {" ", "\t", "\n", "\r"}

RECURSIVE trimStart(_)
trimStart(s) ==
  IF s # <<>> /\ Head(s) \in WhiteSpace THEN trimStart(Tail(s)) ELSE s

RECURSIVE trimEnd(_)
trimEnd(s) ==
  IF s # <<>> /\ s[Len(s)] \in WhiteSpace
  THEN trimEnd(SubSeq(s, 1, Len(s) - 1))
  ELSE s

trim(s) == trimEnd(trimStart(s))

\* s.split(c) for a one-character separator c: at least one piece
RECURSIVE split(_, _)
split(s, c) ==
  IF \E i \in 1..Len(s) : s[i] = c
  THEN LET i == CHOOSE k \in 1..Len(s) : s[k] = c /\ \A j \in 1..(k - 1) : s[j] # c
       IN  <<SubSeq(s, 1, i - 1)>> \o split(SubSeq(s, i + 1, Len(s)), c)
  ELSE <<s>>

\* s.split(/\r?\n/): a "\r" right before a line break belongs to the break
splitLines(s) ==
  LET raw == split(s, "\n")
      cut(p) == IF p # <<>> /\ p[Len(p)] = "\r" THEN SubSeq(p, 1, Len(p) - 1) ELSE p
  IN  [i \in 1..Len(raw) |-> IF i < Len(raw) THEN cut(raw[i]) ELSE raw[i]]

\* s.replace(/\r/g, '')
RECURSIVE removeCr(_)
removeCr(s) ==
  IF s = <<>> THEN <<>>
  ELSE IF Head(s) = "\r" THEN removeCr(Tail(s))
  ELSE <<Head(s)>> \o removeCr(Tail(s))

\* parts.join(sep), sep a string
RECURSIVE join(_, _)
join(parts, sep) ==
  IF parts = <<>> THEN <<>>
  ELSE IF Len(parts) = 1 THEN parts[1]
  ELSE parts[1] \o sep \o join(Tail(parts), sep)

\* array.filter(Boolean) on strings: the non-empty ones, in order
RECURSIVE filterNonEmpty(_)
filterNonEmpty(parts) ==
  IF parts = <<>> THEN <<>>
  ELSE IF Head(parts) = <<>> THEN filterNonEmpty(Tail(parts))
  ELSE <<Head(parts)>> \o filterNonEmpty(Tail(parts))

mapTrim(parts) == [i \in 1..Len(parts) |-> trim(parts[i])]

includes(s, c) == \E i \in 1..Len(s) : s[i] = c

(***************************************************************************)
(* TableData | null                                                        *)
(***************************************************************************)
Null == [isNull |-> TRUE, headers |-> <<>>, rows |-> <<>>]
TableData(h, r) == [isNull |-> FALSE, headers |-> h, rows |-> r]

(***************************************************************************)
(* splitTableRow: one scan with the current cell and the quote mode.       *)
(***************************************************************************)
RECURSIVE splitTableRowFrom(_, _, _, _, _)
splitTableRowFrom(row, i, cells, current, inQuotes) ==
  IF i > Len(row) THEN Append(cells, trim(current))
  ELSE IF row[i] = "\"" THEN splitTableRowFrom(row, i + 1, cells, current, ~inQuotes)
  ELSE IF row[i] \in {",", "\t"} /\ ~inQuotes
       THEN splitTableRowFrom(row, i + 1, Append(cells, trim(current)), <<>>, inQuotes)
  ELSE splitTableRowFrom(row, i + 1, cells, Append(current, row[i]), inQuotes)

splitTableRow(row) == splitTableRowFrom(row, 1, <<>>, <<>>, FALSE)

max(a, b) == IF a >= b THEN a ELSE b

RECURSIVE columnCountOf(_)
columnCountOf(rows) ==
  IF rows = <<>> THEN 0 ELSE max(Len(Head(rows)), columnCountOf(Tail(rows)))

\* mutant: a short row is returned as it is
padRowUnpadded(row, columnCount) == row

\* [...row, ...Array(columnCount - row.length).fill('')]
padRow(row, columnCount) ==
  IF Len(row) = columnCount THEN row
  ELSE row \o [k \in 1..(columnCount - Len(row)) |-> <<>>]

\* mutant: the blank lines are kept
tableLinesUnfiltered(t) == mapTrim(splitLines(t))

\* the trimmed non-blank lines of the text, in order
tableLines(t) == filterNonEmpty(mapTrim(splitLines(t)))

parseTable(t) ==
  LET lines == tableLines(t)
      rows == [i \in 1..Len(lines) |-> splitTableRow(lines[i])]
  IN  IF rows = <<>> THEN Null
      ELSE LET columnCount == columnCountOf(rows)
               normalizedRows == [i \in 1..Len(rows) |-> padRow(rows[i], columnCount)]
           IN  TableData(Head(normalizedRows), Tail(normalizedRows))

(***************************************************************************)
(* tableToCsv                                                              *)
(***************************************************************************)
\* value.replace(/"/g, '""')
RECURSIVE doubleQuotes(_)
doubleQuotes(s) ==
  IF s = <<>> THEN <<>>
  ELSE IF Head(s) = "\"" THEN <<"\"", "\"">> \o doubleQuotes(Tail(s))
  ELSE <<Head(s)>> \o doubleQuotes(Tail(s))

escapeCell(value) ==
  IF includes(value, ",") \/ includes(value, "\"") \/ includes(value, "\n")
  THEN <<"\"">> \o doubleQuotes(value) \o <<"\"">>
  ELSE value

csvLine(row) == join([i \in 1..Len(row) |-> escapeCell(row[i])], <<",">>)

tableToCsv(t) ==
  LET all == <<t.headers>> \o t.rows
  IN  join([i \in 1..Len(all) |-> csvLine(all[i])], <<"\n">>)

(***************************************************************************)
(* The state of the component: its refs, lines 252-265, and what setup     *)
(* leaves in them.  The text of a sample is one token.                     *)
(***************************************************************************)
Kinds == {"word", "excel", "powerpoint", "text"}
Directions == {"to-markdown", "from-markdown"}

\* channel.samples of each channel
samples(k) ==
  IF k = "word" THEN
    [toMarkdown |-> [text |-> <<"word.samples.toMarkdown.text">>,
                    fileName |-> <<"t", "e", "a", "m", "-", "b", "r", "i", "e", "f", ".", "d", "o", "c", "x">>],
     fromMarkdown |-> [text |-> <<"word.samples.fromMarkdown.text">>,
                      fileName |-> <<"r", "e", "l", "e", "a", "s", "e", "-", "n", "o", "t", "e", "s", ".", "m", "d">>]]
  ELSE IF k = "excel" THEN
    [toMarkdown |-> [text |-> <<"excel.samples.toMarkdown.text">>,
                    fileName |-> <<"d", "o", "c", "u", "m", "e", "n", "t", "a", "t", "i", "o", "n", "-", "p", "l", "a", "n", ".", "c", "s", "v">>],
     fromMarkdown |-> [text |-> <<"excel.samples.fromMarkdown.text">>,
                      fileName |-> <<"t", "a", "b", "l", "e", ".", "m", "d">>]]
  ELSE IF k = "powerpoint" THEN
    [toMarkdown |-> [text |-> <<"powerpoint.samples.toMarkdown.text">>,
                    fileName |-> <<"q", "u", "a", "r", "t", "e", "r", "l", "y", "-", "r", "e", "v", "i", "e", "w", ".", "p", "p", "t", "x">>],
     fromMarkdown |-> [text |-> <<"powerpoint.samples.fromMarkdown.text">>,
                      fileName |-> <<"d", "e", "c", "k", "-", "o", "u", "t", "l", "i", "n", "e", ".", "m", "d">>]]
  ELSE
    [toMarkdown |-> [text |-> <<"text.samples.toMarkdown.text">>,
                    fileName |-> <<"t", "e", "a", "m", "-", "n", "o", "t", "e", ".", "t", "x", "t">>],
     fromMarkdown |-> [text |-> <<"text.samples.fromMarkdown.text">>,
                      fileName |-> <<"a", "n", "n", "o", "u", "n", "c", "e", "m", "e", "n", "t", ".", "m", "d">>]]

\* currentSample, a computed value of the direction and the two kinds
currentSample(direction, source, target) ==
  IF direction = "to-markdown" THEN samples(source).toMarkdown
  ELSE samples(target).fromMarkdown

NoFile == [name |-> <<>>, text |-> <<>>, pending |-> FALSE]
NoResponse == [stage |-> "none", contentType |-> <<>>]

\* the refs after setup: the watcher is immediate, so the sample of the first
\* direction and kind is already in the source
Mounted ==
  /\ conversionDirection = "to-markdown"
  /\ sourceKind = "word"
  /\ targetKind = "word"
  /\ sourceText = currentSample("to-markdown", "word", "word").text
  /\ inputFileName = currentSample("to-markdown", "word", "word").fileName
  /\ toastMessage = <<>>
  /\ isFetchingRemote = FALSE
  /\ isUsingSample = TRUE
  /\ remoteUrl = <<>>
  /\ file = NoFile
  /\ response = NoResponse
  /\ watcherQueued = FALSE

(***************************************************************************)
(* Inputs of the table pipeline.                                           *)
(***************************************************************************)
TableAlphabet == {"a", ",", "\t", "\"", " ", "\n"}
Idle ==
  /\ fileName = <<>>
  /\ table = Null
  /\ csv = <<>>
  /\ markdown = <<>>
  /\ tableAgain = Null
  /\ blocks = <<>>
  /\ blocksAgain = <<>>
  /\ slides = <<>>
  /\ kind = "none"
  /\ html = <<>>
  /\ outline = <<>>
  /\ slidesAgain = <<>>
  /\ Mounted

InitTable ==
  /\ pc = "input"
  /\ text \in Str(MaxTableLen, TableAlphabet)
  /\ Idle

\* channel excel, previewSource / toMarkdown: parseTable(input)
ParseTable ==
  /\ pc = "input"
  /\ table' = parseTable(text)
  /\ pc' = "parseTable"
  /\ UNCHANGED <<fileName, text, csv, markdown, tableAgain, blocks, blocksAgain, slides, kind, html, outline, slidesAgain, ui>>

\* channel excel, fromMarkdown: tableToCsv(table) of a table that is not null
TableToCsv ==
  /\ pc = "parseTable"
  /\ ~table.isNull
  /\ csv' = tableToCsv(table)
  /\ pc' = "tableToCsv"
  /\ UNCHANGED <<fileName, text, table, markdown, tableAgain, blocks, blocksAgain, slides, kind, html, outline, slidesAgain, ui>>

\* the CSV that was written is read again
ParseCsvAgain ==
  /\ pc = "tableToCsv"
  /\ tableAgain' = parseTable(csv)
  /\ pc' = "csvAgain"
  /\ UNCHANGED <<fileName, text, table, csv, markdown, blocks, blocksAgain, slides, kind, html, outline, slidesAgain, ui>>

NextTable == ParseTable \/ TableToCsv \/ ParseCsvAgain

SpecTable == InitTable /\ [][NextTable]_vars

(***************************************************************************)
(* C1: CSV round trip.  For every text that parseTable accepts, reading    *)
(* the CSV written from its table gives a table, with the same headers and *)
(* the same rows.                                                          *)
(***************************************************************************)
C1_CsvRoundTrip ==
  pc = "csvAgain" => (~tableAgain.isNull /\ tableAgain = table)

(***************************************************************************)
(* The cells of a line, stated without the scan: a delimiter is a comma or *)
(* a tab with an even number of quotes before it, a cell is the text       *)
(* between two neighbouring delimiters, quotes dropped, trimmed.           *)
(***************************************************************************)
quotesBefore(line, i) == Cardinality({j \in 1..(i - 1) : line[j] = "\""})

delimiters(line) ==
  {i \in 1..Len(line) : line[i] \in {",", "\t"} /\ quotesBefore(line, i) % 2 = 0}

cellCount(line) == Cardinality(delimiters(line)) + 1

\* the k-th delimiter of the line; 0 before the first cell, Len + 1 after the last
delimiterAt(line, k) ==
  IF k = 0 THEN 0
  ELSE IF k > Cardinality(delimiters(line)) THEN Len(line) + 1
  ELSE CHOOSE i \in delimiters(line) :
         Cardinality({j \in delimiters(line) : j <= i}) = k

RECURSIVE dropQuotes(_)
dropQuotes(s) ==
  IF s = <<>> THEN <<>>
  ELSE IF Head(s) = "\"" THEN dropQuotes(Tail(s))
  ELSE <<Head(s)>> \o dropQuotes(Tail(s))

cellAt(line, k) ==
  trim(dropQuotes(SubSeq(line, delimiterAt(line, k - 1) + 1, delimiterAt(line, k) - 1)))

\* row is the cells of the line followed by empty strings only
IsPaddedLine(row, line) ==
  /\ Len(row) >= cellCount(line)
  /\ \A k \in 1..Len(row) :
       row[k] = IF k <= cellCount(line) THEN cellAt(line, k) ELSE <<>>

pipeLineBare(cells) == join(cells, <<" ", "|", " ">>)

\* `| ${cells.join(' | ')} |`
pipeLine(cells) == <<"|", " ">> \o join(cells, <<" ", "|", " ">>) \o <<" ", "|">>

tableToMarkdown(t) ==
  LET headerLine == pipeLine(t.headers)
      separator == pipeLine([i \in 1..Len(t.headers) |-> <<"-", "-", "-">>])
      bodyLines == [i \in 1..Len(t.rows) |-> pipeLine(t.rows[i])]
  IN  join(<<headerLine, separator>> \o bodyLines, <<"\n">>)

(***************************************************************************)
(* parseMarkdownTable                                                      *)
(***************************************************************************)
\* /^\s*\|.+\|\s*$/ on a line without line breaks: the first character that
\* is no white space is a pipe, the last one is a pipe, and at least one
\* character lies between a first and a last pipe
isPipedRow(line) ==
  LET t == trim(line)
  IN  Len(t) >= 3 /\ t[1] = "|" /\ t[Len(t)] = "|"

\* /\|\s*:?-{3,}:?\s*/ anywhere in the line: a pipe, white space, an optional
\* colon, three dashes (what follows them always matches)
isSeparatorRow(line) ==
  \E i \in 1..Len(line) :
    /\ line[i] = "|"
    /\ \E j \in (i + 1)..Len(line) :
         /\ \A k \in (i + 1)..(j - 1) : line[k] \in WhiteSpace
         /\ LET d == IF line[j] = ":" THEN j + 1 ELSE j
            IN  /\ d + 2 <= Len(line)
                /\ \A k \in d..(d + 2) : line[k] = "-"

\* mutant: the cells are taken as written, the trim forgotten
pipeCellsUntrimmed(line) ==
  LET parts == split(line, "|")
  IN  SubSeq(parts, 2, Len(parts) - 1)

\* line.split('|').slice(1, -1).map((cell) => cell.trim())
pipeCells(line) ==
  LET parts == split(line, "|")
  IN  mapTrim(SubSeq(parts, 2, Len(parts) - 1))

\* the body rows from line i on, up to the first line that is no piped row
RECURSIVE bodyRowsFrom(_, _)
bodyRowsFrom(lines, i) ==
  IF i > Len(lines) \/ ~isPipedRow(lines[i]) THEN <<>>
  ELSE <<pipeCells(lines[i])>> \o bodyRowsFrom(lines, i + 1)

bodyRowsOf(lines, start) == bodyRowsFrom(lines, start + 2)

parseMarkdownTable(md) ==
  LET lines == split(removeCr(md), "\n")
      found == {i \in 1..Len(lines) : isPipedRow(lines[i])}
  IN  IF found = {} THEN Null
      ELSE LET start == CHOOSE i \in found : \A j \in found : i <= j
           IN  IF start + 1 > Len(lines) THEN Null
               ELSE IF ~isSeparatorRow(lines[start + 1]) THEN Null
               ELSE LET headers == pipeCells(lines[start])
                        rows == bodyRowsOf(lines, start)
                    IN  IF headers # <<>> THEN TableData(headers, rows) ELSE Null

(***************************************************************************)
(* Inputs of the Markdown table pipeline: every TableData, rectangular or  *)
(* not, of at most MaxTableCells cells (a row without cells counts as one). *)
(***************************************************************************)
MdCells == {<<>>, <<"a">>, <<"|">>, <<" ", "a">>, <<"a", "\n", "b">>}

RowsOfCost(c) == IF c = 1 THEN {<<>>} \cup [1..1 -> MdCells] ELSE [1..c -> MdCells]

RECURSIVE RowSeqs(_)
RowSeqs(n) ==
  {<<>>} \cup UNION {{<<r>> \o rest : r \in RowsOfCost(c), rest \in RowSeqs(n - c)} : c \in 1..n}

InitMdTable ==
  /\ pc = "table"
  /\ table \in {TableData(Head(rs), Tail(rs)) : rs \in RowSeqs(MaxTableCells) \ {<<>>}}
  /\ fileName = <<>>
  /\ text = <<>>
  /\ csv = <<>>
  /\ markdown = <<>>
  /\ tableAgain = Null
  /\ blocks = <<>>
  /\ blocksAgain = <<>>
  /\ slides = <<>>
  /\ kind = "none"
  /\ html = <<>>
  /\ outline = <<>>
  /\ slidesAgain = <<>>
  /\ Mounted

\* channel excel, toMarkdown: tableToMarkdown(table) of a table that is not null
TableToMarkdown ==
  /\ pc \in {"table", "parseTable"}
  /\ ~table.isNull
  /\ markdown' = tableToMarkdown(table)
  /\ pc' = "tableToMarkdown"
  /\ UNCHANGED <<fileName, text, table, csv, tableAgain, blocks, blocksAgain, slides, kind, html, outline, slidesAgain, ui>>

\* channel excel, fromMarkdown: parseMarkdownTable of the Markdown written
ParseMarkdownAgain ==
  /\ pc = "tableToMarkdown"
  /\ tableAgain' = parseMarkdownTable(markdown)
  /\ pc' = "markdownAgain"
  /\ UNCHANGED <<fileName, text, table, csv, markdown, blocks, blocksAgain, slides, kind, html, outline, slidesAgain, ui>>

NextMdTable == TableToMarkdown \/ ParseMarkdownAgain

SpecMdTable == InitMdTable /\ [][NextMdTable]_vars

(***************************************************************************)
(* C2 as stated: for every TableData D, parseMarkdownTable of              *)
(* tableToMarkdown(D) is a TableData with the headers and rows of D.       *)
(***************************************************************************)
C2_MarkdownRoundTrip ==
  pc = "markdownAgain" => tableAgain = table

\* a cell the pipe syntax can carry: no pipe, no line break, nothing to trim
IsCleanCell(cell) ==
  /\ ~includes(cell, "|")
  /\ ~includes(cell, "\n")
  /\ ~includes(cell, "\r")
  /\ trim(cell) = cell

IsCleanTable(t) ==
  /\ Len(t.headers) >= 1
  /\ \A k \in 1..Len(t.headers) : IsCleanCell(t.headers[k])
  /\ \A i \in 1..Len(t.rows) :
       /\ Len(t.rows[i]) >= 1
       /\ \A k \in 1..Len(t.rows[i]) : IsCleanCell(t.rows[i][k])

(***************************************************************************)
(* C2 as amended: the round trip returns D for every TableData D that has  *)
(* at least one header, at least one cell in every row, and whose cells    *)
(* hold no pipe, no line break and no leading or trailing white space.     *)
(***************************************************************************)
C2_MarkdownRoundTripClean ==
  (pc = "markdownAgain" /\ IsCleanTable(table)) => tableAgain = table

\* a clean table of two columns with a body row and an empty cell went round
C2_Witness ==
  /\ pc = "markdownAgain"
  /\ IsCleanTable(table)
  /\ Len(table.headers) = 2
  /\ Len(table.rows) = 1
  /\ table.rows[1] = <<<<>>, <<"a">>>>
  /\ tableAgain = table

(***************************************************************************)
(* DocumentBlock.  A block without a label has the empty label: a label    *)
(* the parser sets has two characters or more, and the formatter tests     *)
(* only whether it is truthy.                                              *)
(***************************************************************************)
HeadingBlock(level, t) ==
  [type |-> "heading", level |-> level, text |-> t, label |-> <<>>, items |-> <<>>]
ParagraphBlock(t, label) ==
  [type |-> "paragraph", level |-> 0, text |-> t, label |-> label, items |-> <<>>]
ListBlock(type, items) ==
  [type |-> type, level |-> 0, text |-> <<>>, label |-> <<>>, items |-> items]

\* currentList = null
NoList == ListBlock("none", <<>>)

Digits == {"0", "1", "2", "3", "4", "5", "6", "7", "8", "9"}

\* the number of characters of the set cs the string starts with
RECURSIVE leading(_, _)
leading(s, cs) ==
  IF s # <<>> /\ Head(s) \in cs THEN 1 + leading(Tail(s), cs) ELSE 0

drop(s, n) == SubSeq(s, n + 1, Len(s))

\* /^(#{1,6})\s+(.*)$/ on a line: one to six '#', then white space
headingMatch(line) ==
  LET n == leading(line, {"#"})
  IN  n >= 1 /\ n <= 6 /\ Len(line) > n /\ line[n + 1] \in WhiteSpace

headingLevel(line) == leading(line, {"#"})
headingText(line) == trimStart(drop(line, leading(line, {"#"})))

\* /^[-*\u2022]\s+(.*)$/; "U+2022" stands for the one character BULLET
DocBullets == {"-", "*", "U+2022"}

\* mutant: a bullet line that holds a colon is left to the label rule
bulletMatchUnlabeled(line) ==
  /\ Len(line) >= 2 /\ line[1] \in DocBullets /\ line[2] \in WhiteSpace
  /\ \A k \in 3..Len(line) : line[k] \notin {":", "U+FF1A"}

bulletMatch(line) ==
  Len(line) >= 2 /\ line[1] \in DocBullets /\ line[2] \in WhiteSpace

bulletText(line) == trimStart(drop(line, 1))

\* /^(\d+)[\.)]\s+(.*)$/
orderedMatch(line) ==
  LET n == leading(line, Digits)
  IN  n >= 1 /\ Len(line) >= n + 2 /\ line[n + 1] \in {".", ")"} /\ line[n + 2] \in WhiteSpace

orderedText(line) == trimStart(drop(line, leading(line, Digits) + 1))

\* /^([^:\uFF1A]{2,})[:\uFF1A]\s*(.*)$/: the first colon, with two characters
\* or more before it; "U+FF1A" stands for the one character FULLWIDTH COLON
Colons == {":", "U+FF1A"}

\* mutant: a line that starts with an asterisk is no label line
colonMatchUnstarred(line) ==
  LET n == leading(line, {line[i] : i \in 1..Len(line)} \ Colons)
  IN  n >= 2 /\ n < Len(line) /\ line[1] # "*"

colonMatch(line) ==
  LET n == leading(line, {line[i] : i \in 1..Len(line)} \ Colons)
  IN  n >= 2 /\ n < Len(line)

colonLabel(line) == SubSeq(line, 1, leading(line, {line[i] : i \in 1..Len(line)} \ Colons))
colonText(line) ==
  trimStart(drop(line, leading(line, {line[i] : i \in 1..Len(line)} \ Colons) + 1))

(***************************************************************************)
(* createDocumentBlocks: one pass over the lines with the blocks emitted   *)
(* so far, the paragraph buffer and the open list.                         *)
(***************************************************************************)
\* mutant: the paragraph buffer is emptied and nothing is pushed
flushParagraphDropped(bs, paragraph) == bs

\* flushParagraph: the blocks after it (the buffer is then empty)
flushParagraph(bs, paragraph) ==
  IF paragraph # <<>> THEN Append(bs, ParagraphBlock(join(paragraph, <<" ">>), <<>>)) ELSE bs

\* flushList: the blocks after it (no list is open then)
flushList(bs, currentList) ==
  IF currentList # NoList THEN Append(bs, currentList) ELSE bs

\* mutant: an open list of either kind takes the item
continuesListOfAnyKind(currentList, type) == currentList # NoList

\* the negation of (!currentList || currentList.type !== type)
continuesList(currentList, type) == currentList.type = type

RECURSIVE documentLoop(_, _, _, _, _)
documentLoop(lines, i, bs, paragraph, currentList) ==
  IF i > Len(lines) THEN flushList(flushParagraph(bs, paragraph), currentList)
  ELSE
    LET trimmed == trim(lines[i])
        flushed == flushList(flushParagraph(bs, paragraph), currentList)
    IN  IF trimmed = <<>> THEN documentLoop(lines, i + 1, flushed, <<>>, NoList)
        ELSE IF headingMatch(trimmed)
        THEN documentLoop(lines, i + 1,
               Append(flushed, HeadingBlock(headingLevel(trimmed), headingText(trimmed))),
               <<>>, NoList)
        ELSE IF bulletMatch(trimmed)
        THEN IF ~continuesList(currentList, "ul")
             THEN documentLoop(lines, i + 1, flushed, <<>>,
                    ListBlock("ul", <<bulletText(trimmed)>>))
             ELSE documentLoop(lines, i + 1, flushParagraph(bs, paragraph), <<>>,
                    ListBlock("ul", Append(currentList.items, bulletText(trimmed))))
        ELSE IF orderedMatch(trimmed)
        THEN IF ~continuesList(currentList, "ol")
             THEN documentLoop(lines, i + 1, flushed, <<>>,
                    ListBlock("ol", <<orderedText(trimmed)>>))
             ELSE documentLoop(lines, i + 1, flushParagraph(bs, paragraph), <<>>,
                    ListBlock("ol", Append(currentList.items, orderedText(trimmed))))
        ELSE IF colonMatch(trimmed)
        THEN documentLoop(lines, i + 1,
               Append(flushed, ParagraphBlock(colonText(trimmed), colonLabel(trimmed))),
               <<>>, NoList)
        ELSE documentLoop(lines, i + 1, bs, Append(paragraph, trimmed), currentList)

createDocumentBlocks(t) ==
  documentLoop(split(removeCr(t), "\n"), 1, <<>>, <<>>, NoList)

(***************************************************************************)
(* documentBlocksToMarkdown                                                *)
(***************************************************************************)
repeat(c, n) == [k \in 1..n |-> c]

\* the decimal digits of a number of at least 1
RECURSIVE decimal(_)
decimal(n) ==
  LET d == <<"0", "1", "2", "3", "4", "5", "6", "7", "8", "9">>[(n % 10) + 1]
  IN  IF n < 10 THEN <<d>> ELSE Append(decimal(n \div 10), d)

\* the lines one block pushes, the empty line after it included
blockLines(block) ==
  IF block.type = "heading"
  THEN <<repeat("#", block.level) \o <<" ">> \o block.text, <<>>>>
  ELSE IF block.type = "paragraph"
  THEN IF block.label # <<>>
       THEN <<<<"*", "*">> \o block.label \o <<":", "*", "*", " ">> \o block.text, <<>>>>
       ELSE <<block.text, <<>>>>
  ELSE [k \in 1..(Len(block.items) + 1) |->
          IF k > Len(block.items) THEN <<>>
          ELSE IF block.type = "ul" THEN <<"-", " ">> \o block.items[k]
          ELSE decimal(k) \o <<".", " ">> \o block.items[k]]

RECURSIVE allBlockLines(_)
allBlockLines(bs) ==
  IF bs = <<>> THEN <<>> ELSE blockLines(Head(bs)) \o allBlockLines(Tail(bs))

\* s.replace(/\n{3,}/g, '\n\n'): every run of three line breaks or more becomes two
RECURSIVE collapseBreaks(_)
collapseBreaks(s) ==
  IF s = <<>> THEN <<>>
  ELSE LET n == leading(s, {"\n"})
       IN  IF n >= 3 THEN <<"\n", "\n">> \o collapseBreaks(drop(s, n))
           ELSE IF n >= 1 THEN SubSeq(s, 1, n) \o collapseBreaks(drop(s, n))
           ELSE <<Head(s)>> \o collapseBreaks(Tail(s))

documentBlocksToMarkdown(bs) ==
  trim(collapseBreaks(join(allBlockLines(bs), <<"\n">>)))

(***************************************************************************)
(* Inputs of the document pipeline: every short text of the alphabet, and  *)
(* every text of at most MaxDocLines of the sample lines.                  *)
(***************************************************************************)
\* every sequence of at most n of the lines, joined by line breaks
LinesOf(n, lines) == {join(ls, <<"\n">>) : ls \in UNION {[1..k -> lines] : k \in 0..n}}

DocAlphabet == {"#", "-", "1", ".", ":", " ", "\n", "a"}

DocLines ==
  { <<>>,
    <<"#", " ", "T">>,
    <<"#", "#", "#", "#", "#", "#", " ", "h">>,
    <<"#", "#", "#", "#", "#", "#", "#", " ", "g">>,
    <<"-", " ", "a">>,
    <<"*", " ", "b">>,
    <<"U+2022", " ", "c">>,
    <<"1", ".", " ", "d">>,
    <<"2", ")", " ", "e">>,
    <<"a", "b", ":", " ", "v">>,
    <<"a", "b", "U+FF1A", "v">>,
    <<"-", " ", "k", "k", ":", " ", "x">>,
    <<"#", " ", "a", ":", " ", "b">>,
    <<"p", "q">>,
    <<"-">> }

InitDoc ==
  /\ pc = "input"
  /\ text \in Str(MaxDocLen, DocAlphabet)
       \cup LinesOf(MaxDocLines, DocLines)
  /\ Idle

\* channels word and text, toMarkdown and previewSource: createDocumentBlocks(input)
CreateDocumentBlocks ==
  /\ pc = "input"
  /\ blocks' = createDocumentBlocks(text)
  /\ pc' = "createDocumentBlocks"
  /\ UNCHANGED <<fileName, text, table, csv, markdown, tableAgain, blocksAgain, slides, kind, html, outline, slidesAgain, ui>>

\* channels word and text, toMarkdown: documentBlocksToMarkdown(blocks)
DocumentBlocksToMarkdown ==
  /\ pc = "createDocumentBlocks"
  /\ markdown' = documentBlocksToMarkdown(blocks)
  /\ pc' = "documentBlocksToMarkdown"
  /\ UNCHANGED <<fileName, text, table, csv, tableAgain, blocks, blocksAgain, slides, kind, html, outline, slidesAgain, ui>>

\* the Markdown that was written is parsed again
CreateBlocksAgain ==
  /\ pc = "documentBlocksToMarkdown"
  /\ blocksAgain' = createDocumentBlocks(markdown)
  /\ pc' = "blocksAgain"
  /\ UNCHANGED <<fileName, text, table, csv, markdown, tableAgain, blocks, slides, kind, html, outline, slidesAgain, ui>>

NextDoc == CreateDocumentBlocks \/ DocumentBlocksToMarkdown \/ CreateBlocksAgain

SpecDoc == InitDoc /\ [][NextDoc]_vars

\* the headings and lists of a block sequence, each with its position
structure(bs) ==
  {<<i, bs[i]>> : i \in {k \in 1..Len(bs) : bs[k].type \in {"heading", "ul", "ol"}}}

(***************************************************************************)
(* C3: document round trip.  The blocks parsed from the Markdown written   *)
(* for B have the headings (level, text) and the lists (kind, items) of B, *)
(* at the same positions, and no others.                                   *)
(***************************************************************************)
C3_DocumentRoundTrip ==
  pc = "blocksAgain" => structure(blocksAgain) = structure(blocks)

(***************************************************************************)
(* channels: kind and extensions of each channel, in declaration order.    *)
(***************************************************************************)
\* mutant: the channel of plain text is declared first
channelsTextFirst ==
  << [kind |-> "text", extensions |-> <<<<"t", "x", "t">>, <<"m", "d">>, <<"l", "o", "g">>>>],
     [kind |-> "word", extensions |-> <<<<"d", "o", "c", "x">>, <<"d", "o", "c">>, <<"r", "t", "f">>, <<"t", "x", "t">>>>],
     [kind |-> "excel", extensions |-> <<<<"x", "l", "s", "x">>, <<"x", "l", "s">>, <<"c", "s", "v">>, <<"t", "s", "v">>>>],
     [kind |-> "powerpoint", extensions |-> <<<<"p", "p", "t", "x">>, <<"p", "p", "t">>, <<"m", "d">>, <<"t", "x", "t">>>>] >>

channels ==
  << [kind |-> "word", extensions |-> <<<<"d", "o", "c", "x">>, <<"d", "o", "c">>, <<"r", "t", "f">>, <<"t", "x", "t">>>>],
     [kind |-> "excel", extensions |-> <<<<"x", "l", "s", "x">>, <<"x", "l", "s">>, <<"c", "s", "v">>, <<"t", "s", "v">>>>],
     [kind |-> "powerpoint", extensions |-> <<<<"p", "p", "t", "x">>, <<"p", "p", "t">>, <<"m", "d">>, <<"t", "x", "t">>>>],
     [kind |-> "text", extensions |-> <<<<"t", "x", "t">>, <<"m", "d">>, <<"l", "o", "g">>>>] >>

\* array.includes(x)
contains(seq, x) == \E i \in 1..Len(seq) : seq[i] = x

UpperCase ==
  <<"A", "B", "C", "D", "E", "F", "G", "H", "I", "J", "K", "L", "M",
    "N", "O", "P", "Q", "R", "S", "T", "U", "V", "W", "X", "Y", "Z">>
LowerCase ==
  <<"a", "b", "c", "d", "e", "f", "g", "h", "i", "j", "k", "l", "m",
    "n", "o", "p", "q", "r", "s", "t", "u", "v", "w", "x", "y", "z">>

toLowerCase(s) ==
  [i \in 1..Len(s) |->
     IF \E k \in 1..26 : UpperCase[k] = s[i]
     THEN LowerCase[CHOOSE k \in 1..26 : UpperCase[k] = s[i]]
     ELSE s[i]]

\* fileName.split('.').pop()?.toLowerCase() ?? ''
extensionOf(name) ==
  LET parts == split(name, ".")
  IN  toLowerCase(parts[Len(parts)])

\* the characters '.' of a regular expression does not match
LineTerminators == {"\n", "\r"}

\* /^\s*#/
startsWithHash(content) ==
  LET n == leading(content, WhiteSpace)
  IN  Len(content) > n /\ content[n + 1] = "#"

\* /\|\s.+\|/: a pipe, one white space, one character or more of the same
\* line, a pipe
hasPipeRow(content) ==
  \E i \in 1..Len(content) :
    /\ content[i] = "|"
    /\ i + 1 <= Len(content)
    /\ content[i + 1] \in WhiteSpace
    /\ \E j \in (i + 3)..Len(content) :
         /\ content[j] = "|"
         /\ \A k \in (i + 2)..(j - 1) : content[k] \notin LineTerminators

\* /,\s*|\t/.test(content) && content.split('\n').some((line) => /,|\t/.test(line))
hasDelimiter(content) ==
  /\ \E i \in 1..Len(content) : content[i] \in {",", "\t"}
  /\ LET lines == split(content, "\n")
     IN  \E l \in 1..Len(lines) : \E i \in 1..Len(lines[l]) : lines[l][i] \in {",", "\t"}

\* /^[-*•]\s+/m: at the start of the text or after a line terminator
hasBulletLine(content) ==
  \E i \in 1..Len(content) :
    /\ i = 1 \/ content[i - 1] \in LineTerminators
    /\ content[i] \in DocBullets
    /\ i + 1 <= Len(content)
    /\ content[i + 1] \in WhiteSpace

\* /\n{2,}/
hasBlankLineRun(content) ==
  \E i \in 1..(Len(content) - 1) : content[i] = "\n" /\ content[i + 1] = "\n"

\* mutant: the table cue is tested before the Markdown cues
kindOfContentTableFirst(content) ==
  IF hasDelimiter(content) THEN "excel"
  ELSE IF startsWithHash(content) \/ hasPipeRow(content) THEN "markdown"
  ELSE IF hasBulletLine(content) /\ hasBlankLineRun(content) THEN "powerpoint"
  ELSE "text"

\* the content heuristics, lines 456-465
kindOfContent(content) ==
  IF startsWithHash(content) \/ hasPipeRow(content) THEN "markdown"
  ELSE IF hasDelimiter(content) THEN "excel"
  ELSE IF hasBulletLine(content) /\ hasBlankLineRun(content) THEN "powerpoint"
  ELSE "text"

\* for (const channel of channels) if (channel.extensions.includes(ext)) return channel.kind
kindOfExtension(chs, ext) ==
  LET hits == {i \in 1..Len(chs) : contains(chs[i].extensions, ext)}
  IN  IF hits = {} THEN "none"
      ELSE chs[CHOOSE i \in hits : \A j \in hits : i <= j].kind

detectKind(name, content) ==
  LET ext == extensionOf(name)
  IN  IF ext # <<>> /\ ext \in {<<"m", "d">>, <<"m", "a", "r", "k", "d", "o", "w", "n">>}
      THEN "markdown"
      ELSE IF ext # <<>> /\ kindOfExtension(channels, ext) # "none"
      THEN kindOfExtension(channels, ext)
      ELSE kindOfContent(content)

(***************************************************************************)
(* Inputs of the kind detector.  Every file name of at most MaxNameDots    *)
(* dots in front of its last segment meets every content of at most        *)
(* MaxCueLen characters and the documented examples; the names in          *)
(* PlainNames meet every content of at most MaxContentLen characters.      *)
(***************************************************************************)
NameBases == {<<>>, <<"m", "d">>}

NameEnds ==
  { <<"d", "o", "c", "x">>,
    <<"d", "o", "c">>,
    <<"r", "t", "f">>,
    <<"t", "x", "t">>,
    <<"x", "l", "s", "x">>,
    <<"x", "l", "s">>,
    <<"c", "s", "v">>,
    <<"t", "s", "v">>,
    <<"p", "p", "t", "x">>,
    <<"p", "p", "t">>,
    <<"m", "d">>,
    <<"l", "o", "g">>,
    <<"m", "a", "r", "k", "d", "o", "w", "n">>,
    <<"M", "D">>,
    <<"C", "s", "v">>,
    <<"x", "y", "z">>,
    <<"m", "d", "x">>,
    <<>> }

SampleNames ==
  { <<"r", "e", "p", "o", "r", "t", ".", "c", "s", "v">>,
    <<"n", "o", "t", "e", ".", "m", "d">>,
    <<"p", "l", "a", "i", "n", ".", "t", "x", "t">> }

NamesOfDots(k) == {join(bs \o <<e>>, <<".">>) : bs \in [1..k -> NameBases], e \in NameEnds}

FileNames == SampleNames \cup UNION {NamesOfDots(k) : k \in 0..MaxNameDots}

PlainNames ==
  { <<>>,
    <<"n", "o", "t", "e", "s">>,
    <<"a", ".", "x", "y", "z">>,
    <<"a", ".", "c", "s", "v">> }

DetectAlphabet == {"#", "|", ",", "\t", "-", "\n", "a"}

SampleContents ==
  { <<"j", "u", "s", "t", " ", "w", "o", "r", "d", "s">>,
    <<"a", ",", "b", "\n", "1", ",", "2">>,
    <<"#", " ", "h", "i">>,
    <<"|", " ", "a", " ", "|", " ", "b", " ", "|">>,
    <<"|", " ", "a", ",", "b", " ", "|">>,
    <<"-", " ", "a", "\n", "\n", "b">>,
    <<"-", " ", "a", ",", "b", "\n", "\n", "c">> }

InitDetect ==
  /\ pc = "input"
  /\ \/ /\ fileName \in FileNames
        /\ text \in SampleContents \cup Str(MaxCueLen, DetectAlphabet)
     \/ /\ fileName \in PlainNames
        /\ text \in Str(MaxContentLen, DetectAlphabet)
  /\ table = Null
  /\ csv = <<>>
  /\ markdown = <<>>
  /\ tableAgain = Null
  /\ blocks = <<>>
  /\ blocksAgain = <<>>
  /\ slides = <<>>
  /\ kind = "none"
  /\ html = <<>>
  /\ outline = <<>>
  /\ slidesAgain = <<>>
  /\ Mounted

\* applyDetection: const detected = detectKind(name, text)
DetectKind ==
  /\ pc = "input"
  /\ kind' = detectKind(fileName, text)
  /\ pc' = "detectKind"
  /\ UNCHANGED <<fileName, text, table, csv, markdown, tableAgain, blocks, blocksAgain, slides, html, outline, slidesAgain, ui>>

NextDetect == DetectKind

SpecDetect == InitDetect /\ [][NextDetect]_vars

\* the part of a name after its last dot, in lower case
afterLastDot(name) ==
  LET dots == {i \in 1..Len(name) : name[i] = "."}
      last == CHOOSE i \in dots : \A j \in dots : j <= i
  IN  toLowerCase(SubSeq(name, last + 1, Len(name)))

\* the kind each registered extension stands for: the first channel that lists it
WordExtensions == { <<"d", "o", "c", "x">>, <<"d", "o", "c">>, <<"r", "t", "f">>, <<"t", "x", "t">> }
ExcelExtensions == { <<"x", "l", "s", "x">>, <<"x", "l", "s">>, <<"c", "s", "v">>, <<"t", "s", "v">> }
PowerPointExtensions == { <<"p", "p", "t", "x">>, <<"p", "p", "t">> }
MarkdownExtensions == { <<"m", "d">>, <<"m", "a", "r", "k", "d", "o", "w", "n">> }
TextExtensions == { <<"l", "o", "g">> }
KnownExtensions ==
  WordExtensions \cup ExcelExtensions \cup PowerPointExtensions
    \cup MarkdownExtensions \cup TextExtensions

(***************************************************************************)
(* C4: the extension decides first, whatever the content.  For a name with *)
(* a dot, the extension md or markdown gives markdown; otherwise the kind  *)
(* is that of the first of word, excel, powerpoint, text that lists it.    *)
(***************************************************************************)
C4_ExtensionFirst ==
  (pc = "detectKind" /\ includes(fileName, ".")) =>
    LET ext == afterLastDot(fileName)
    IN  /\ ext \in MarkdownExtensions => kind = "markdown"
        /\ ext \in WordExtensions => kind = "word"
        /\ ext \in ExcelExtensions => kind = "excel"
        /\ ext \in PowerPointExtensions => kind = "powerpoint"
        /\ ext \in TextExtensions => kind = "text"

\* report.csv with content that starts like Markdown is a table all the same
C4_Witness ==
  /\ pc = "detectKind"
  /\ fileName = <<"r", "e", "p", "o", "r", "t", ".", "c", "s", "v">>
  /\ text = <<"#", " ", "h", "i">>
  /\ kind = "excel"

\* the cues of the content, stated on the characters
CueHash(c) == \E i \in 1..Len(c) : c[i] = "#" /\ \A k \in 1..(i - 1) : c[k] \in WhiteSpace
CuePipeRow(c) ==
  \E i, j \in 1..Len(c) :
    /\ j >= i + 3
    /\ c[i] = "|" /\ c[j] = "|"
    /\ c[i + 1] \in WhiteSpace
    /\ \A k \in (i + 2)..(j - 1) : c[k] \notin {"\n", "\r"}
CueDelimiter(c) == includes(c, ",") \/ includes(c, "\t")
CueBullet(c) ==
  \E i \in 1..(Len(c) - 1) :
    /\ c[i] \in {"-", "*", "U+2022"}
    /\ c[i + 1] \in WhiteSpace
    /\ i > 1 => c[i - 1] \in {"\n", "\r"}
CueBlankRun(c) == \E i \in 1..(Len(c) - 1) : SubSeq(c, i, i + 1) = <<"\n", "\n">>
NoCue(c) ==
  /\ ~CueHash(c) /\ ~CuePipeRow(c) /\ ~CueDelimiter(c)
  /\ ~(CueBullet(c) /\ CueBlankRun(c))

\* the last segment of the name, the whole name when it has no dot
lastSegment(name) ==
  LET dots == {i \in 1..Len(name) : name[i] = "."}
  IN  IF dots = {} THEN toLowerCase(name) ELSE afterLastDot(name)

(***************************************************************************)
(* C5 as stated: a file named *.txt whose content has no Markdown, table   *)
(* or slide cue is detected as plain text.                                 *)
(***************************************************************************)
C5_PlainTxtIsText ==
  ( /\ pc = "detectKind"
    /\ includes(fileName, ".")
    /\ afterLastDot(fileName) = <<"t", "x", "t">>
    /\ trim(text) # <<>>
    /\ NoCue(text) ) => kind = "text"

(***************************************************************************)
(* C6: without a known extension the content decides, in a fixed priority  *)
(* in which the earlier cue wins: a leading '#' or a pipe row is Markdown, *)
(* else a comma or a tab is a table, else a bullet line together with a    *)
(* run of two line breaks is a slide outline, else plain text.             *)
(***************************************************************************)
C6_ContentPriority ==
  (pc = "detectKind" /\ lastSegment(fileName) \notin KnownExtensions) =>
    /\ (CueHash(text) \/ CuePipeRow(text)) => kind = "markdown"
    /\ (~CueHash(text) /\ ~CuePipeRow(text) /\ CueDelimiter(text)) => kind = "excel"
    /\ ( /\ ~CueHash(text) /\ ~CuePipeRow(text) /\ ~CueDelimiter(text)
         /\ CueBullet(text) /\ CueBlankRun(text) ) => kind = "powerpoint"
    /\ NoCue(text) => kind = "text"

\* a pipe row and a comma in content of unknown extension: Markdown wins
C6_Witness ==
  /\ pc = "detectKind"
  /\ lastSegment(fileName) = <<"x", "y", "z">>
  /\ CuePipeRow(text)
  /\ CueDelimiter(text)
  /\ ~CueHash(text)
  /\ kind = "markdown"

(***************************************************************************)
(* SlideOutline, parseSlidesFromOutline                                    *)
(***************************************************************************)
Slide(title, bullets) == [title |-> title, bullets |-> bullets]

\* s.split(/\n{2,}/): a run of two line breaks or more separates
RECURSIVE splitBlankRunsFrom(_, _, _)
splitBlankRunsFrom(s, i, current) ==
  IF i > Len(s) THEN <<current>>
  ELSE LET n == leading(drop(s, i - 1), {"\n"})
       IN  IF n >= 2 THEN <<current>> \o splitBlankRunsFrom(s, i + n, <<>>)
           ELSE splitBlankRunsFrom(s, i + 1, Append(current, s[i]))

splitBlankRuns(s) == splitBlankRunsFrom(s, 1, <<>>)

\* line.replace(/^[-*•]\s*/, '').replace(/^[0-9]+[\.)]\s*/, '')
outlineBullet(line) ==
  LET a == IF line # <<>> /\ Head(line) \in DocBullets THEN trimStart(Tail(line)) ELSE line
      n == leading(a, Digits)
  IN  IF n >= 1 /\ Len(a) > n /\ a[n + 1] \in {".", ")"} THEN trimStart(drop(a, n + 1)) ELSE a

\* `幻灯片 ${index + 1}`, the title of a segment without lines
fallbackTitle(index) == <<"U+5E7B", "U+706F", "U+7247", " ">> \o decimal(index + 1)

\* mutant: the blank lines of a segment are kept
segmentLinesUnfiltered(segment) == mapTrim(split(segment, "\n"))

\* the non-empty trimmed lines of a segment
segmentLines(segment) == filterNonEmpty(mapTrim(split(segment, "\n")))

\* the slide of the segment of (0-based) index
outlineSlide(segment, index) ==
  LET lines == segmentLines(segment)
      title == IF lines # <<>> THEN Head(lines) ELSE fallbackTitle(index)
      rest == IF lines # <<>> THEN Tail(lines) ELSE <<>>
  IN  Slide(title, [k \in 1..Len(rest) |-> outlineBullet(rest[k])])

\* normalized.split(/\n{2,}/).map((segment) => segment.trim()).filter(Boolean)
outlineSegments(normalized) == filterNonEmpty(mapTrim(splitBlankRuns(normalized)))

parseSlidesFromOutline(input) ==
  LET normalized == trim(removeCr(input))
  IN  IF normalized = <<>> THEN <<>>
      ELSE LET segments == outlineSegments(normalized)
           IN  [k \in 1..Len(segments) |-> outlineSlide(segments[k], k - 1)]

(***************************************************************************)
(* markdownToSlides: one pass over the lines with the slides pushed so far *)
(* and the slide in progress.                                              *)
(***************************************************************************)
\* current = null
NoSlide == [title |-> <<>>, bullets |-> <<>>, open |-> FALSE]
OpenSlide(title, bullets) == [title |-> title, bullets |-> bullets, open |-> TRUE]

\* the title of the slide opened by a list line that comes before any heading
overviewTitle == <<"U+6982", "U+89C8">>

\* /^[-*+]\s+/
slideBulletMatch(line) ==
  Len(line) >= 2 /\ line[1] \in {"-", "*", "+"} /\ line[2] \in WhiteSpace

\* /^[0-9]+[\.)]\s+/
slideNumberMatch(line) == orderedMatch(line)

\* if (current) slides.push(current)
pushCurrent(done, current) ==
  IF current.open THEN Append(done, Slide(current.title, current.bullets)) ELSE done

\* mutant: the slide in progress at the end of the input is forgotten
endOfSlidesDropped(done, current) == done

\* lines 949-952: the slide in progress is pushed, the slides are returned
endOfSlides(done, current) == pushCurrent(done, current)

\* current.bullets.push(b), on the slide titled `title` when none is open
withBullet(current, title, b) ==
  IF current.open THEN OpenSlide(current.title, Append(current.bullets, b))
  ELSE OpenSlide(title, <<b>>)

\* mutant: the line is matched as it was written
slideLineRaw(rawLine) == rawLine

\* const line = rawLine.trim()
slideLine(rawLine) == trim(rawLine)

RECURSIVE slidesLoop(_, _, _, _)
slidesLoop(lines, i, done, current) ==
  IF i > Len(lines) THEN endOfSlides(done, current)
  ELSE
    LET line == slideLine(lines[i])
    IN  IF line = <<>> THEN slidesLoop(lines, i + 1, done, current)
        ELSE IF headingMatch(line)
        THEN slidesLoop(lines, i + 1, pushCurrent(done, current),
               OpenSlide(headingText(line), <<>>))
        ELSE IF slideBulletMatch(line)
        THEN slidesLoop(lines, i + 1, done,
               withBullet(current, overviewTitle, trimStart(drop(line, 1))))
        ELSE IF slideNumberMatch(line)
        THEN slidesLoop(lines, i + 1, done,
               withBullet(current, overviewTitle, orderedText(line)))
        ELSE IF ~current.open
        THEN slidesLoop(lines, i + 1, done, OpenSlide(line, <<>>))
        ELSE slidesLoop(lines, i + 1, done, withBullet(current, <<>>, line))

markdownToSlides(md) == slidesLoop(split(removeCr(md), "\n"), 1, <<>>, NoSlide)

(***************************************************************************)
(* escapeHtml and formatInlineMarkdown                                     *)
(***************************************************************************)
\* text.replace(/c/g, r) for one character c
RECURSIVE replaceChar(_, _, _)
replaceChar(s, c, r) ==
  IF s = <<>> THEN <<>>
  ELSE (IF Head(s) = c THEN r ELSE <<Head(s)>>) \o replaceChar(Tail(s), c, r)

escapeHtml(t) ==
  replaceChar(replaceChar(replaceChar(t, "&", <<"&", "a", "m", "p", ";">>),
                          "<", <<"&", "l", "t", ";">>),
              ">", <<"&", "g", "t", ";">>)

startsWith(s, prefix) ==
  Len(s) >= Len(prefix) /\ SubSeq(s, 1, Len(prefix)) = prefix

\* the number of leading characters of s that are not the character c
RECURSIVE leadingOther(_, _)
leadingOther(s, c) ==
  IF s # <<>> /\ Head(s) # c THEN 1 + leadingOther(Tail(s), c) ELSE 0

\* s.replace(/D([^c]+)D/g, before + '$1' + after), D the delimiter that c starts:
\* the leftmost match first, the scan going on after each match
RECURSIVE replaceSpans(_, _, _, _, _)
replaceSpans(s, delimiter, c, before, after) ==
  IF s = <<>> THEN <<>>
  ELSE
    LET rest == drop(s, Len(delimiter))
        n == leadingOther(rest, c)
    IN  IF startsWith(s, delimiter) /\ n >= 1 /\ startsWith(drop(rest, n), delimiter)
        THEN before \o SubSeq(rest, 1, n) \o after
               \o replaceSpans(drop(rest, n + Len(delimiter)), delimiter, c, before, after)
        ELSE <<Head(s)>> \o replaceSpans(Tail(s), delimiter, c, before, after)

\* '<a href="$2" target="_blank" rel="noopener">$1</a>'
anchor(label, url) ==
  <<"<", "a", " ", "h", "r", "e", "f", "=", "\"">> \o url
    \o <<"\"", " ", "t", "a", "r", "g", "e", "t", "=", "\"", "_", "b", "l", "a", "n", "k", "\"",
         " ", "r", "e", "l", "=", "\"", "n", "o", "o", "p", "e", "n", "e", "r", "\"", ">">>
    \o label \o <<"<", "/", "a", ">">>

\* s.replace(/\[([^\]]+)\]\(([^)]+)\)/g, anchor)
RECURSIVE replaceLinks(_)
replaceLinks(s) ==
  IF s = <<>> THEN <<>>
  ELSE
    LET rest == Tail(s)
        n == leadingOther(rest, "]")
        tail == drop(rest, n + 2)
        m == leadingOther(tail, ")")
    IN  IF /\ Head(s) = "["
           /\ n >= 1
           /\ startsWith(drop(rest, n), <<"]", "(">>)
           /\ m >= 1
           /\ startsWith(drop(tail, m), <<")">>)
        THEN anchor(SubSeq(rest, 1, n), SubSeq(tail, 1, m)) \o replaceLinks(drop(tail, m + 1))
        ELSE <<Head(s)>> \o replaceLinks(Tail(s))

\* "U+0060" stands for the one character GRAVE ACCENT (the backtick)
formatInlineMarkdown(t) ==
  LET escaped == escapeHtml(t)
      strong == replaceSpans(escaped, <<"*", "*">>, "*",
                  <<"<", "s", "t", "r", "o", "n", "g", ">">>,
                  <<"<", "/", "s", "t", "r", "o", "n", "g", ">">>)
      em == replaceSpans(strong, <<"*">>, "*", <<"<", "e", "m", ">">>, <<"<", "/", "e", "m", ">">>)
      code == replaceSpans(em, <<"U+0060">>, "U+0060",
                <<"<", "c", "o", "d", "e", ">">>, <<"<", "/", "c", "o", "d", "e", ">">>)
  IN  replaceLinks(code)

(***************************************************************************)
(* markdownToHtml: one pass over the lines with the output so far (the     *)
(* pieces pushed to html, joined without separator), the flags inUl, inOl  *)
(* and inCode, and the lines of the open code block.                       *)
(***************************************************************************)
openTag(name) == <<"<">> \o name \o <<">">>
closeTag(name) == <<"<", "/">> \o name \o <<">">>

\* '<div class="md-gap"></div>'
gapElement ==
  <<"<", "d", "i", "v", " ", "c", "l", "a", "s", "s", "=", "\"", "m", "d", "-", "g", "a", "p",
    "\"", ">", "<", "/", "d", "i", "v", ">">>

\* the state before the first line
HtmlStart ==
  [html |-> <<>>, inUl |-> FALSE, inOl |-> FALSE, inCode |-> FALSE, codeLines |-> <<>>]

push(st, piece) == [st EXCEPT !.html = @ \o piece]

\* mutant: only an unordered list is closed
closeListsUnordered(st) ==
  IF st.inUl THEN [push(st, closeTag(<<"u", "l">>)) EXCEPT !.inUl = FALSE] ELSE st

closeLists(st) ==
  LET a == IF st.inUl THEN [push(st, closeTag(<<"u", "l">>)) EXCEPT !.inUl = FALSE] ELSE st
  IN  IF a.inOl THEN [push(a, closeTag(<<"o", "l">>)) EXCEPT !.inOl = FALSE] ELSE a

\* mutant: the lines of the code block are emitted as they are
flushCodeUnescaped(st) ==
  IF st.inCode
  THEN [push(st, openTag(<<"p", "r", "e">>) \o openTag(<<"c", "o", "d", "e">>)
                   \o join(st.codeLines, <<"\n">>)
                   \o closeTag(<<"c", "o", "d", "e">>) \o closeTag(<<"p", "r", "e">>))
          EXCEPT !.codeLines = <<>>, !.inCode = FALSE]
  ELSE st

flushCode(st) ==
  IF st.inCode
  THEN [push(st, openTag(<<"p", "r", "e">>) \o openTag(<<"c", "o", "d", "e">>)
                   \o escapeHtml(join(st.codeLines, <<"\n">>))
                   \o closeTag(<<"c", "o", "d", "e">>) \o closeTag(<<"p", "r", "e">>))
          EXCEPT !.codeLines = <<>>, !.inCode = FALSE]
  ELSE st

\* /^```/
fenceMatch(line) == startsWith(line, <<"U+0060", "U+0060", "U+0060">>)

listItem(t) == openTag(<<"l", "i">>) \o formatInlineMarkdown(t) \o closeTag(<<"l", "i">>)

\* the body of the loop, lines 807-864, for one rawLine
htmlLine(st, rawLine) ==
  LET line == trimEnd(rawLine)
  IN  IF fenceMatch(line)
      THEN IF st.inCode THEN flushCode(st) ELSE [closeLists(st) EXCEPT !.inCode = TRUE]
      ELSE IF st.inCode THEN [st EXCEPT !.codeLines = Append(@, rawLine)]
      ELSE IF trim(line) = <<>> THEN push(closeLists(st), gapElement)
      ELSE IF headingMatch(line)
      THEN LET h == <<"h">> \o decimal(headingLevel(line))
           IN  push(closeLists(st),
                    openTag(h) \o formatInlineMarkdown(headingText(line)) \o closeTag(h))
      ELSE IF slideBulletMatch(line)
      THEN LET opened == IF ~st.inUl
                         THEN [push(closeLists(st), openTag(<<"u", "l">>)) EXCEPT !.inUl = TRUE]
                         ELSE st
           IN  push(opened, listItem(trimStart(drop(line, 1))))
      ELSE IF orderedMatch(line)
      THEN LET opened == IF ~st.inOl
                         THEN [push(closeLists(st), openTag(<<"o", "l">>)) EXCEPT !.inOl = TRUE]
                         ELSE st
           IN  push(opened, listItem(orderedText(line)))
      ELSE push(closeLists(st),
                openTag(<<"p">>) \o formatInlineMarkdown(line) \o closeTag(<<"p">>))

RECURSIVE htmlLoop(_, _, _)
htmlLoop(lines, i, st) ==
  IF i > Len(lines) THEN st ELSE htmlLoop(lines, i + 1, htmlLine(st, lines[i]))

markdownToHtml(md) ==
  flushCode(closeLists(htmlLoop(split(removeCr(md), "\n"), 1, HtmlStart))).html

(***************************************************************************)
(* The parsers on text, as the channels call them.                         *)
(***************************************************************************)
\* channel excel, fromMarkdown: parseMarkdownTable(markdown) on the source text
ParseMarkdownTable ==
  /\ pc = "input"
  /\ table' = parseMarkdownTable(text)
  /\ pc' = "parseMarkdownTable"
  /\ UNCHANGED <<fileName, text, csv, markdown, tableAgain, blocks, blocksAgain, slides, kind, html, outline, slidesAgain, ui>>

\* channel powerpoint, toMarkdown and previewSource: parseSlidesFromOutline(input)
ParseSlidesFromOutline ==
  /\ pc = "input"
  /\ slides' = parseSlidesFromOutline(text)
  /\ pc' = "parseSlidesFromOutline"
  /\ UNCHANGED <<fileName, text, table, csv, markdown, tableAgain, blocks, blocksAgain, kind, html, outline, slidesAgain, ui>>

\* channel powerpoint, fromMarkdown: markdownToSlides(markdown)
MarkdownToSlides ==
  /\ pc = "input"
  /\ slides' = markdownToSlides(text)
  /\ pc' = "markdownToSlides"
  /\ UNCHANGED <<fileName, text, table, csv, markdown, tableAgain, blocks, blocksAgain, kind, html, outline, slidesAgain, ui>>

\* channel word, fromMarkdown: markdownToWordDocument(markdown), whose preview
\* is markdownToHtml(markdown)
MarkdownToHtml ==
  /\ pc = "input"
  /\ html' = markdownToHtml(text)
  /\ pc' = "markdownToHtml"
  /\ UNCHANGED <<fileName, text, table, csv, markdown, tableAgain, blocks, blocksAgain, slides, kind, outline, slidesAgain, ui>>

(***************************************************************************)
(* Blank input: every text of at most MaxBlankLen white-space characters,  *)
(* the empty text included, given to each of the five parsers.             *)
(***************************************************************************)
InitBlank ==
  /\ pc = "input"
  /\ text \in Str(MaxBlankLen, WhiteSpace)
  /\ Idle

NextBlank ==
  \/ ParseTable
  \/ ParseMarkdownTable
  \/ CreateDocumentBlocks
  \/ ParseSlidesFromOutline
  \/ MarkdownToSlides

SpecBlank == InitBlank /\ [][NextBlank]_vars

(***************************************************************************)
(* C8: on the empty string, and on text of white space and blank lines     *)
(* only, parseTable and parseMarkdownTable return null, and                *)
(* createDocumentBlocks, parseSlidesFromOutline and markdownToSlides       *)
(* return the empty sequence.                                              *)
(***************************************************************************)
C8_BlankInputIsEmpty ==
  /\ pc \in {"parseTable", "parseMarkdownTable"} => table = Null
  /\ pc = "createDocumentBlocks" => blocks = <<>>
  /\ pc \in {"parseSlidesFromOutline", "markdownToSlides"} => slides = <<>>

\* parseTable was given blank lines of several kinds
C8_Witness ==
  /\ pc = "parseTable"
  /\ Len(text) = 4
  /\ includes(text, "\n") /\ includes(text, " ") /\ includes(text, "\t")
  /\ table = Null

(***************************************************************************)
(* Inputs of the slide parsers.                                            *)
(***************************************************************************)
SlideAlphabet == {"#", "-", "1", ".", " ", "\n", "a"}

SlideLines ==
  { <<>>,
    <<"#", " ", "T">>,
    <<"#", "#", " ", "U">>,
    <<"#", "#", "#", "#", "#", "#", " ", "h">>,
    <<"#", "#", "#", "#", "#", "#", "#", " ", "g">>,
    <<"-", " ", "a">>,
    <<"*", " ", "b">>,
    <<"+", " ", "c">>,
    <<"U+2022", " ", "c">>,
    <<"1", ".", " ", "d">>,
    <<"2", ")", " ", "e">>,
    <<"-", " ", "1", ".", " ", "x">>,
    <<"p", "q">>,
    <<"#">> }

InitSlides ==
  /\ pc = "input"
  /\ text \in Str(MaxSlideLen, SlideAlphabet)
       \cup LinesOf(MaxSlideLines, SlideLines)
  /\ Idle

NextSlides == ParseSlidesFromOutline \/ MarkdownToSlides

SpecSlides == InitSlides /\ [][NextSlides]_vars

(***************************************************************************)
(* C9: every slide parseSlidesFromOutline and markdownToSlides return has  *)
(* a title that is not empty.                                              *)
(***************************************************************************)
C9_TitleNonEmpty ==
  pc \in {"parseSlidesFromOutline", "markdownToSlides"} =>
    \A k \in 1..Len(slides) : slides[k].title # <<>>

\* markdownToSlides took a title from a heading line written with two spaces
C9_Witness ==
  /\ pc = "markdownToSlides"
  /\ text = <<"#", " ", " ", "a">>
  /\ slides = <<Slide(<<"a">>, <<>>)>>

\* a heading line: one to six '#', then white space
IsHeadingLine(l) ==
  \E n \in 1..6 :
    /\ Len(l) > n
    /\ \A k \in 1..n : l[k] = "#"
    /\ l[n + 1] \in WhiteSpace

\* a line without its heading, bullet or number marker and the space after it
RECURSIVE withoutSpace(_)
withoutSpace(l) == IF l # <<>> /\ l[1] \in WhiteSpace THEN withoutSpace(Tail(l)) ELSE l

RECURSIVE withoutHashes(_)
withoutHashes(l) == IF l # <<>> /\ l[1] = "#" THEN withoutHashes(Tail(l)) ELSE l

RECURSIVE withoutDigits(_)
withoutDigits(l) == IF l # <<>> /\ l[1] \in Digits THEN withoutDigits(Tail(l)) ELSE l

IsBulletLine(l) == Len(l) >= 2 /\ l[1] \in {"-", "*", "+"} /\ l[2] \in WhiteSpace
IsNumberLine(l) ==
  LET r == withoutDigits(l)
  IN  Len(r) < Len(l) /\ Len(r) >= 2 /\ r[1] \in {".", ")"} /\ r[2] \in WhiteSpace

withoutMarker(l) ==
  IF IsBulletLine(l) THEN withoutSpace(Tail(l))
  ELSE IF IsNumberLine(l) THEN withoutSpace(Tail(withoutDigits(l)))
  ELSE l

\* the non-blank lines of a Markdown text, trimmed
markdownLines(md) == filterNonEmpty(mapTrim(split(removeCr(md), "\n")))

\* the index of the k-th heading line; one past the last line when there is none
headingAt(ls, k) ==
  LET H == {i \in 1..Len(ls) : IsHeadingLine(ls[i])}
  IN  IF k > Cardinality(H) THEN Len(ls) + 1
      ELSE CHOOSE i \in H : Cardinality({j \in H : j <= i}) = k

(***************************************************************************)
(* C10: markdownToSlides builds the slides in input order.  When the first *)
(* non-blank line is a heading and h lines are headings, there are exactly *)
(* h slides; slide k has the text of the k-th heading as its title and,    *)
(* as its bullets, the lines up to the next heading, in order, each        *)
(* without its bullet or number marker.                                    *)
(***************************************************************************)
C10_SlidesInInputOrder ==
  LET ls == markdownLines(text)
  IN  (pc = "markdownToSlides" /\ ls # <<>> /\ IsHeadingLine(ls[1])) =>
        /\ Len(slides) = Cardinality({i \in 1..Len(ls) : IsHeadingLine(ls[i])})
        /\ \A k \in 1..Len(slides) :
             LET from == headingAt(ls, k)
                 to == headingAt(ls, k + 1)
             IN  /\ slides[k].title = withoutSpace(withoutHashes(ls[from]))
                 /\ slides[k].bullets =
                      [j \in 1..(to - from - 1) |-> withoutMarker(ls[from + j])]

\* two headings and a bullet under the first
C10_Witness ==
  /\ pc = "markdownToSlides"
  /\ text = <<"#", " ", "T", "\n", "-", " ", "a", "\n", "#", "#", " ", "U">>
  /\ slides = <<Slide(<<"T">>, <<<<"a">>>>), Slide(<<"U">>, <<>>)>>

\* a line that is neither heading nor bullet nor numbered line
IsOtherLine(l) == ~IsHeadingLine(l) /\ ~IsBulletLine(l) /\ ~IsNumberLine(l)

NotHeadingLine(l) == ~IsHeadingLine(l)

\* the bullets of all the slides, in order
RECURSIVE allBullets(_)
allBullets(sl) == IF sl = <<>> THEN <<>> ELSE Head(sl).bullets \o allBullets(Tail(sl))

(***************************************************************************)
(* C15: in markdownToSlides every non-blank line that is neither heading   *)
(* nor bullet nor numbered line becomes a bullet with the text of the      *)
(* (trimmed) line, wherever it stands, and never a title: the bullets of   *)
(* the slides, in order, are the lines that are not headings, list lines   *)
(* without their marker, and every title comes from a heading line or is   *)
(* the title given to a slide opened by a list line.                       *)
(***************************************************************************)
C15_OtherLinesAreBullets ==
  LET ls == markdownLines(text)
      others == SelectSeq(ls, NotHeadingLine)
  IN  pc = "markdownToSlides" =>
        /\ allBullets(slides) = [j \in 1..Len(others) |-> withoutMarker(others[j])]
        /\ \A k \in 1..Len(slides) :
             \/ slides[k].title = overviewTitle
             \/ \E i \in 1..Len(ls) :
                  /\ IsHeadingLine(ls[i])
                  /\ slides[k].title = withoutSpace(withoutHashes(ls[i]))

(***************************************************************************)
(* Inputs of the outline parser: every short text of the alphabet, and     *)
(* every text of at most MaxOutlineLines of the sample lines.              *)
(***************************************************************************)
OutlineAlphabet == {"-", "1", ".", " ", "\n", "a"}

OutlineLines ==
  { <<>>,
    <<" ">>,
    <<"T">>,
    <<"-", " ", "a">>,
    <<"1", ".", " ", "b">>,
    <<"-", " ", "1", ".", " ", "x">>,
    <<"*", "c">> }

InitOutline ==
  /\ pc = "input"
  /\ text \in Str(MaxOutlineLen, OutlineAlphabet)
       \cup LinesOf(MaxOutlineLines, OutlineLines)
  /\ Idle

NextOutline == ParseSlidesFromOutline

SpecOutline == InitOutline /\ [][NextOutline]_vars

\* the lines of the trimmed outline
outlineLines(input) == split(trim(removeCr(input)), "\n")

\* the indexes of the lines that are not blank
nonBlankAt(ls) == {i \in 1..Len(ls) : trim(ls[i]) # <<>>}

\* no run of two or more newlines between lines i and j: no empty line from i to j
sameSegment(ls, i, j) == \A k \in i..j : ls[k] # <<>>

\* the indexes of the first non-blank line of each segment
titlesAt(ls) ==
  {i \in nonBlankAt(ls) : \A j \in nonBlankAt(ls) : j < i => ~sameSegment(ls, j, i)}

\* the non-blank lines after line t in the segment of line t
bulletsAt(ls, t) == {i \in nonBlankAt(ls) : i > t /\ sameSegment(ls, t, i)}

\* the k-th smallest element of a set of numbers
nth(S, k) == CHOOSE i \in S : Cardinality({j \in S : j <= i}) = k

\* b is what is left of the line l after a prefix is cut off
IsSuffix(b, l) == \E n \in 0..Len(l) : b = SubSeq(l, n + 1, Len(l))

\* the line begins with a character of a bullet or number marker
startsMarker(l) == l # <<>> /\ l[1] \in DocBullets \cup Digits

(***************************************************************************)
(* C11: parseSlidesFromOutline returns one slide for each segment of the   *)
(* trimmed input that holds a non-blank line, segments being separated by  *)
(* runs of two or more newlines, in input order.  The title of a slide is  *)
(* the first non-blank line of its segment and its bullets are the other   *)
(* non-blank lines of the segment, in order: as many bullets as lines,     *)
(* each the trimmed line, or what follows its marker when it starts with   *)
(* one.                                                                    *)
(***************************************************************************)
C11_OutlineSegments ==
  LET ls == outlineLines(text)
      T == titlesAt(ls)
  IN  pc = "parseSlidesFromOutline" =>
        /\ Len(slides) = Cardinality(T)
        /\ \A k \in 1..Len(slides) :
             LET t == nth(T, k)
                 B == bulletsAt(ls, t)
             IN  /\ slides[k].title = trim(ls[t])
                 /\ Len(slides[k].bullets) = Cardinality(B)
                 /\ \A j \in 1..Len(slides[k].bullets) :
                      LET l == trim(ls[nth(B, j)])
                          b == slides[k].bullets[j]
                      IN  /\ IsSuffix(b, l)
                          /\ ~startsMarker(l) => b = l

\* two segments, the first with a title and a bullet
C11_Witness ==
  /\ pc = "parseSlidesFromOutline"
  /\ text = <<"T", "\n", "*", "c", "\n", "\n", "T">>
  /\ slides = <<Slide(<<"T">>, <<<<"c">>>>), Slide(<<"T">>, <<>>)>>

\* the line without one leading marker: a bullet character, or digits and '.' or ')',
\* and the white space after it
withoutOneMarker(l) ==
  IF l # <<>> /\ l[1] \in DocBullets THEN withoutSpace(Tail(l))
  ELSE LET r == withoutDigits(l)
       IN  IF Len(r) < Len(l) /\ r # <<>> /\ r[1] \in {".", ")"}
           THEN withoutSpace(Tail(r))
           ELSE l

(***************************************************************************)
(* C16: parseSlidesFromOutline removes at most one leading marker from a   *)
(* bullet line: every bullet is its line without one leading marker, so a  *)
(* bullet marker followed by a number marker keeps the number marker.      *)
(***************************************************************************)
C16_OneMarkerRemoved ==
  LET ls == outlineLines(text)
      T == titlesAt(ls)
  IN  pc = "parseSlidesFromOutline" =>
        \A k \in 1..Len(slides) :
          LET B == bulletsAt(ls, nth(T, k))
          IN  \A j \in 1..Len(slides[k].bullets) :
                slides[k].bullets[j] = withoutOneMarker(trim(ls[nth(B, j)]))

(***************************************************************************)
(* Inputs of the Markdown table parser: every short text of the alphabet,  *)
(* and every document of at most MaxMdLines of the sample lines.           *)
(***************************************************************************)
MdAlphabet == {"|", "-", "\n", "a"}

MdLines ==
  { <<>>,
    <<"p", "q">>,
    <<"|", " ", "a", " ", "|">>,
    <<"|", " ", "a", " ", "|", " ", "b", " ", "|">>,
    <<"|", "-", "-", "-", "|">>,
    <<"|", " ", ":", "-", "-", "-", " ", "|", " ", "-", "-", "-", ":", " ", "|">>,
    <<"|", "-", "-", "-", "x", "|">>,
    <<"|", "-", "-", "|">>,
    <<"|", " ", "1", " ", "|", " ", "2", " ", "|", " ", "3", " ", "|">> }

InitMdText ==
  /\ pc = "input"
  /\ text \in Str(MaxMdLen, MdAlphabet)
       \cup LinesOf(MaxMdLines, MdLines)
  /\ Idle

NextMdText == ParseMarkdownTable

SpecMdText == InitMdText /\ [][NextMdText]_vars

\* a line of piped-row shape: a pipe first and last, white space aside
IsPipedLine(l) ==
  LET t == withoutSpace(l)
      last == CHOOSE n \in 0..Len(t) :
                /\ n = 0 \/ t[n] \notin WhiteSpace
                /\ \A k \in (n + 1)..Len(t) : t[k] \in WhiteSpace
  IN  last >= 3 /\ t[1] = "|" /\ t[last] = "|"

\* a separator row: only pipes, dashes, colons and spaces, with a pipe and
\* three dashes in a row
IsSeparatorLine(l) ==
  /\ \A k \in 1..Len(l) : l[k] \in {"|", "-", ":", " ", "\t"}
  /\ \E k \in 1..Len(l) : l[k] = "|"
  /\ \E k \in 1..(Len(l) - 2) : l[k] = "-" /\ l[k + 1] = "-" /\ l[k + 2] = "-"

(***************************************************************************)
(* C12: parseMarkdownTable looks at the first line of piped-row shape      *)
(* only.  When that line is the last one, or the line right after it is    *)
(* not a separator row made of pipes, dashes, colons and spaces only, the  *)
(* result is null, whatever tables come later in the document.             *)
(***************************************************************************)
C12_SeparatorRequired ==
  LET lines == split(removeCr(text), "\n")
      P == {i \in 1..Len(lines) : IsPipedLine(lines[i])}
  IN  (pc = "parseMarkdownTable" /\ P # {}) =>
        LET first == CHOOSE i \in P : \A j \in P : i <= j
        IN  (first = Len(lines) \/ ~IsSeparatorLine(lines[first + 1])) => table = Null

(***************************************************************************)
(* C17: every TableData parseMarkdownTable returns has, in each body row,  *)
(* as many cells as there are headers.                                     *)
(***************************************************************************)
C17_MdRowsRectangular ==
  (pc = "parseMarkdownTable" /\ ~table.isNull) =>
    \A i \in 1..Len(table.rows) : Len(table.rows[i]) = Len(table.headers)

(***************************************************************************)
(* Channel excel, toMarkdown: parseTable(input), then tableToMarkdown of   *)
(* the table when it is not null.  The input alphabet has the pipe.        *)
(***************************************************************************)
PipeTableAlphabet == {"a", "|", ",", " ", "\n"}

InitTableMd ==
  /\ pc = "input"
  /\ text \in Str(MaxTableLen, PipeTableAlphabet)
  /\ Idle

NextTableMd == ParseTable \/ TableToMarkdown

SpecTableMd == InitTableMd /\ [][NextTableMd]_vars

\* the cells with " | " between them
RECURSIVE cellsBetweenPipes(_)
cellsBetweenPipes(cells) ==
  IF cells = <<>> THEN <<>>
  ELSE IF Len(cells) = 1 THEN cells[1]
  ELSE cells[1] \o <<" ", "|", " ">> \o cellsBetweenPipes(Tail(cells))

\* the cells, as written, between "| " and " |"
rowOfCells(cells) == <<"|", " ">> \o cellsBetweenPipes(cells) \o <<" ", "|">>

(***************************************************************************)
(* C13: the output of tableToMarkdown has rows.length + 2 lines: line 1    *)
(* is the header cells, line 2 one '---' for each header, line i + 2 the   *)
(* cells of row i; the cells stand as they are (a pipe in a cell is not    *)
(* escaped) between "| " and " |", with " | " between two cells.           *)
(***************************************************************************)
C13_MarkdownTableLines ==
  pc = "tableToMarkdown" =>
    LET out == split(markdown, "\n")
    IN  /\ Len(out) = Len(table.rows) + 2
        /\ out[1] = rowOfCells(table.headers)
        /\ out[2] = rowOfCells([k \in 1..Len(table.headers) |-> <<"-", "-", "-">>])
        /\ \A i \in 1..Len(table.rows) : out[i + 2] = rowOfCells(table.rows[i])

\* two columns and a padded body row, a header cell that is a pipe
C13_Witness ==
  /\ pc = "tableToMarkdown"
  /\ table = TableData(<<<<"|">>, <<"a">>>>, << <<<<"a">>, <<>>>> >>)
  /\ markdown = <<"|", " ", "|", " ", "|", " ", "a", " ", "|", "\n",
                  "|", " ", "-", "-", "-", " ", "|", " ", "-", "-", "-", " ", "|", "\n",
                  "|", " ", "a", " ", "|", " ", " ", "|">>

\* the labeled paragraphs of a block sequence
IsLabeled(block) == block.type = "paragraph" /\ block.label # <<>>

(***************************************************************************)
(* C14 as stated: when createDocumentBlocks gives one labeled paragraph,   *)
(* parsing the Markdown line written for it gives no labeled paragraph.    *)
(***************************************************************************)
C14_LabelNotReparsed ==
  (pc = "blocksAgain" /\ Len(blocks) = 1 /\ IsLabeled(blocks[1])) =>
    \A j \in 1..Len(blocksAgain) : ~IsLabeled(blocksAgain[j])

\* the block the line `**label:** text` is parsed into
starred(block) ==
  ParagraphBlock(IF block.text = <<>> THEN <<"*", "*">>
                 ELSE <<"*", "*", " ">> \o block.text,
                 <<"*", "*">> \o block.label)

(***************************************************************************)
(* C14 as amended: the labeled-paragraph round trip is lossy.  For every   *)
(* labeled paragraph {label, text} createDocumentBlocks gives, parsing the *)
(* Markdown written gives a labeled paragraph with the label `**label`     *)
(* and the text `** text` (`**` when the text is empty), and not the block *)
(* itself; a document of that one block is parsed into that one block.     *)
(***************************************************************************)
C14_LabelReparsedStarred ==
  pc = "blocksAgain" =>
    /\ \A k \in 1..Len(blocks) :
         IsLabeled(blocks[k]) =>
           /\ \E j \in 1..Len(blocksAgain) : blocksAgain[j] = starred(blocks[k])
           /\ starred(blocks[k]) # blocks[k]
    /\ (Len(blocks) = 1 /\ IsLabeled(blocks[1])) => blocksAgain = <<starred(blocks[1])>>

\* the line "ab: v" went round
C14_Witness ==
  /\ pc = "blocksAgain"
  /\ blocks = <<ParagraphBlock(<<"v">>, <<"a", "b">>)>>
  /\ markdown = <<"*", "*", "a", "b", ":", "*", "*", " ", "v">>
  /\ blocksAgain = <<ParagraphBlock(<<"*", "*", " ", "v">>, <<"*", "*", "a", "b">>)>>

\* the shapes of a trimmed line, each taken alone
IsDocBulletLine(l) == Len(l) >= 2 /\ l[1] \in {"-", "*", "U+2022"} /\ l[2] \in WhiteSpace

\* the number of characters before the first colon, 0 when it is not a label line
labelLength(l) ==
  LET N == {n \in 2..(Len(l) - 1) :
              /\ l[n + 1] \in {":", "U+FF1A"}
              /\ \A k \in 1..n : l[k] \notin {":", "U+FF1A"}}
  IN  IF N = {} THEN 0 ELSE CHOOSE n \in N : TRUE

IsLabelLine(l) == labelLength(l) > 0

\* the rule that handles a line: the first one, in the fixed order, that matches
ruleOf(l) ==
  IF IsHeadingLine(l) THEN "heading"
  ELSE IF IsDocBulletLine(l) THEN "bullet"
  ELSE IF IsNumberLine(l) THEN "numbered"
  ELSE IF IsLabelLine(l) THEN "label"
  ELSE "plain"

IsHeadingRule(l) == ruleOf(l) = "heading"
IsBulletRule(l) == ruleOf(l) = "bullet"
IsNumberedRule(l) == ruleOf(l) = "numbered"
IsLabelRule(l) == ruleOf(l) = "label"
IsPlainRule(l) == ruleOf(l) = "plain"

IsHeadingBlock(b) == b.type = "heading"
IsUnorderedBlock(b) == b.type = "ul"
IsOrderedBlock(b) == b.type = "ol"
IsPlainBlock(b) == b.type = "paragraph" /\ b.label = <<>>

\* the items of all the blocks, in order
RECURSIVE allItems(_)
allItems(bs) == IF bs = <<>> THEN <<>> ELSE Head(bs).items \o allItems(Tail(bs))

\* the words of the lines or texts, with one space between two of them
RECURSIVE spaced(_)
spaced(ts) ==
  IF ts = <<>> THEN <<>>
  ELSE IF Len(ts) = 1 THEN ts[1]
  ELSE ts[1] \o <<" ">> \o spaced(Tail(ts))

(***************************************************************************)
(* C18: createDocumentBlocks handles each non-blank trimmed line by the    *)
(* first rule that matches, in the order heading, bullet, numbered,        *)
(* 'label: value', plain.  The heading blocks are the heading lines, the   *)
(* items of the unordered and ordered lists are the bullet and numbered    *)
(* lines, the labeled paragraphs are the label lines that are none of      *)
(* these, and the paragraphs without label hold the remaining lines, all   *)
(* in input order; every heading block has a level from 1 to 6.            *)
(***************************************************************************)
C18_FirstRuleWins ==
  LET ls == markdownLines(text)
      hs == SelectSeq(ls, IsHeadingRule)
      us == SelectSeq(ls, IsBulletRule)
      os == SelectSeq(ls, IsNumberedRule)
      cs == SelectSeq(ls, IsLabelRule)
      ps == SelectSeq(ls, IsPlainRule)
  IN  pc = "createDocumentBlocks" =>
        /\ SelectSeq(blocks, IsHeadingBlock) =
             [j \in 1..Len(hs) |->
                HeadingBlock(Len(hs[j]) - Len(withoutHashes(hs[j])),
                             withoutSpace(withoutHashes(hs[j])))]
        /\ allItems(SelectSeq(blocks, IsUnorderedBlock)) =
             [j \in 1..Len(us) |-> withoutSpace(Tail(us[j]))]
        /\ allItems(SelectSeq(blocks, IsOrderedBlock)) =
             [j \in 1..Len(os) |-> withoutSpace(Tail(withoutDigits(os[j])))]
        /\ SelectSeq(blocks, IsLabeled) =
             [j \in 1..Len(cs) |->
                ParagraphBlock(
                  withoutSpace(SubSeq(cs[j], labelLength(cs[j]) + 2, Len(cs[j]))),
                  SubSeq(cs[j], 1, labelLength(cs[j])))]
        /\ LET plain == SelectSeq(blocks, IsPlainBlock)
           IN  spaced([j \in 1..Len(plain) |-> plain[j].text]) = spaced(ps)
        /\ \A k \in 1..Len(blocks) :
             blocks[k].type = "heading" => blocks[k].level \in 1..6

\* a bullet line and a heading line that both hold 'label: value'
C18_Witness ==
  /\ pc = "createDocumentBlocks"
  /\ text = <<"-", " ", "k", "k", ":", " ", "x", "\n", "#", " ", "a", ":", " ", "b">>
  /\ blocks = <<ListBlock("ul", <<<<"k", "k", ":", " ", "x">>>>),
                HeadingBlock(1, <<"a", ":", " ", "b">>)>>

\* the trimmed lines of a text, the blank ones included
trimmedLines(t) == mapTrim(split(removeCr(t), "\n"))

IsListRule(l) == ruleOf(l) \in {"bullet", "numbered"}

\* lines i <= j are list lines of one marker type, and from i to j there are
\* only lines of that type and plain lines
sameList(ls, i, j) ==
  /\ ruleOf(ls[i]) = ruleOf(ls[j])
  /\ \A k \in i..j : ls[k] # <<>> /\ ruleOf(ls[k]) \in {ruleOf(ls[i]), "plain"}

listLinesAt(ls) == {i \in 1..Len(ls) : IsListRule(ls[i])}

\* the indexes of the list lines that start a list
listStartsAt(ls) ==
  {i \in listLinesAt(ls) : \A j \in listLinesAt(ls) : j < i => ~sameList(ls, j, i)}

\* the list lines of the list that line t starts
listOf(ls, t) == {i \in listLinesAt(ls) : i >= t /\ sameList(ls, t, i)}

itemOf(l) ==
  IF IsDocBulletLine(l) THEN withoutSpace(Tail(l)) ELSE withoutSpace(Tail(withoutDigits(l)))

IsListBlock(b) == b.type \in {"ul", "ol"}

(***************************************************************************)
(* C19: in createDocumentBlocks a change of list marker type starts a new  *)
(* list block.  The list blocks are, in order, the runs of list lines of   *)
(* one marker type (a blank line, a heading, a label line or a list line   *)
(* of the other type ends a run): a block is "ul" with the items of the    *)
(* bullet lines of its run or "ol" with the items of the numbered lines of *)
(* its run, so no block holds items of both.                               *)
(***************************************************************************)
C19_MarkerChangeStartsList ==
  LET ls == trimmedLines(text)
      S == listStartsAt(ls)
      lists == SelectSeq(blocks, IsListBlock)
  IN  pc = "createDocumentBlocks" =>
        /\ Len(lists) = Cardinality(S)
        /\ \A k \in 1..Len(lists) :
             LET t == nth(S, k)
                 run == listOf(ls, t)
             IN  lists[k] =
                   ListBlock(IF IsDocBulletLine(ls[t]) THEN "ul" ELSE "ol",
                             [j \in 1..Cardinality(run) |-> itemOf(ls[nth(run, j)])])

\* a bullet line, a numbered line and a bullet line
C19_Witness ==
  /\ pc = "createDocumentBlocks"
  /\ text = <<"-", " ", "a", "\n", "1", ".", " ", "d", "\n", "*", " ", "b">>
  /\ blocks = <<ListBlock("ul", <<<<"a">>>>), ListBlock("ol", <<<<"d">>>>),
                ListBlock("ul", <<<<"b">>>>)>>

(***************************************************************************)
(* Inputs of the Markdown renderer: every short text of the alphabet, and  *)
(* every document of at most MaxHtmlLines of the sample lines.             *)
(***************************************************************************)
HtmlAlphabet == {"U+0060", "-", "1", ".", " ", "\n"}

HtmlLines ==
  { <<>>,
    <<"#", " ", "T">>,
    <<"-", " ", "a">>,
    <<"1", ".", " ", "b">>,
    <<"p", " ", "<", "&", ">">>,
    <<"U+0060", "U+0060", "U+0060">>,
    <<"U+0060", "U+0060", "U+0060", "j", "s">>,
    <<" ", "+", " ", "c">>,
    <<"*", "*", "s", "*", "*", " ", "U+0060", "c", "U+0060", " ", "[", "t", "]", "(", "u", ")">>,
    <<"[", "t", "]", "(", "u", "\"", " ", "x", "=", "\"", ")">> }

InitHtml ==
  /\ pc = "input"
  /\ text \in Str(MaxHtmlLen, HtmlAlphabet)
       \cup LinesOf(MaxHtmlLines, HtmlLines)
  /\ Idle

NextHtml == MarkdownToHtml

SpecHtml == InitHtml /\ [][NextHtml]_vars

\* the tags of an output, in order: each from a '<' to the next '>'
RECURSIVE tagsOf(_)
tagsOf(h) ==
  IF h = <<>> THEN <<>>
  ELSE IF Head(h) = "<"
  THEN LET n == CHOOSE k \in 1..Len(h) :
                  /\ \A j \in 1..(k - 1) : h[j] # ">"
                  /\ k = Len(h) \/ h[k] = ">"
       IN  <<SubSeq(h, 1, n)>> \o tagsOf(SubSeq(h, n + 1, Len(h)))
  ELSE tagsOf(Tail(h))

\* the tags that open a heading, a paragraph or a gap element
BlockStarts ==
  {<<"<", "h", d, ">">> : d \in {"1", "2", "3", "4", "5", "6"}}
    \cup {<<"<", "p", ">">>}

IsGapStart(t) == Len(t) >= 4 /\ SubSeq(t, 1, 4) = <<"<", "d", "i", "v">>

\* the tags are well bracketed from the state open: "none", "ul", "ol" or "pre"
RECURSIVE bracketed(_, _)
bracketed(ts, open) ==
  IF ts = <<>> THEN open = "none"
  ELSE LET t == Head(ts)
       IN  IF t = <<"<", "u", "l", ">">> THEN open = "none" /\ bracketed(Tail(ts), "ul")
           ELSE IF t = <<"<", "o", "l", ">">> THEN open = "none" /\ bracketed(Tail(ts), "ol")
           ELSE IF t = <<"<", "p", "r", "e", ">">> THEN open = "none" /\ bracketed(Tail(ts), "pre")
           ELSE IF t = <<"<", "/", "u", "l", ">">> THEN open = "ul" /\ bracketed(Tail(ts), "none")
           ELSE IF t = <<"<", "/", "o", "l", ">">> THEN open = "ol" /\ bracketed(Tail(ts), "none")
           ELSE IF t = <<"<", "/", "p", "r", "e", ">">>
           THEN open = "pre" /\ bracketed(Tail(ts), "none")
           ELSE IF t = <<"<", "l", "i", ">">> THEN open \in {"ul", "ol"} /\ bracketed(Tail(ts), open)
           ELSE IF t \in BlockStarts \/ IsGapStart(t) THEN open = "none" /\ bracketed(Tail(ts), open)
           ELSE bracketed(Tail(ts), open)

IsFenceLine(l) == Len(l) >= 3 /\ \A k \in 1..3 : l[k] = "U+0060"

fencesBefore(ls, i) == Cardinality({k \in 1..(i - 1) : IsFenceLine(ls[k])})

\* the lines outside code blocks that are list lines
listLinesOutsideCode(ls) ==
  {i \in 1..Len(ls) :
     /\ ~IsFenceLine(ls[i])
     /\ fencesBefore(ls, i) % 2 = 0
     /\ (IsBulletLine(trimEnd(ls[i])) \/ IsNumberLine(trimEnd(ls[i])))}

count(ts, t) == Cardinality({k \in 1..Len(ts) : ts[k] = t})

(***************************************************************************)
(* C20: the output of markdownToHtml is well bracketed.  Reading its tags  *)
(* in order, at most one of <ul>, <ol> and <pre> is open at any point, no  *)
(* heading, paragraph or gap element starts while one is open, every <li>  *)
(* stands in an open list, and everything opened is closed at the end.     *)
(* There is one <li> for each list line outside code blocks and one <pre>  *)
(* for each opening fence, a fence left unclosed at the end included.      *)
(***************************************************************************)
C20_HtmlWellBracketed ==
  LET ls == split(removeCr(text), "\n")
      ts == tagsOf(html)
  IN  pc = "markdownToHtml" =>
        /\ bracketed(ts, "none")
        /\ count(ts, <<"<", "l", "i", ">">>) = Cardinality(listLinesOutsideCode(ls))
        /\ count(ts, <<"<", "p", "r", "e", ">">>) = (fencesBefore(ls, Len(ls) + 1) + 1) \div 2

\* a bullet line, a numbered line and a fence that is never closed
C20_Witness ==
  /\ pc = "markdownToHtml"
  /\ text = <<"-", " ", "a", "\n", "1", ".", " ", "b", "\n", "U+0060", "U+0060", "U+0060">>
  /\ tagsOf(html) =
       << <<"<", "u", "l", ">">>, <<"<", "l", "i", ">">>, <<"<", "/", "l", "i", ">">>,
          <<"<", "/", "u", "l", ">">>,
          <<"<", "o", "l", ">">>, <<"<", "l", "i", ">">>, <<"<", "/", "l", "i", ">">>,
          <<"<", "/", "o", "l", ">">>,
          <<"<", "p", "r", "e", ">">>, <<"<", "c", "o", "d", "e", ">">>,
          <<"<", "/", "c", "o", "d", "e", ">">>, <<"<", "/", "p", "r", "e", ">">> >>

\* the text with '&', '<' and '>' written as character references
RECURSIVE escaped(_)
escaped(t) ==
  IF t = <<>> THEN <<>>
  ELSE (IF Head(t) = "&" THEN <<"&", "a", "m", "p", ";">>
        ELSE IF Head(t) = "<" THEN <<"&", "l", "t", ";">>
        ELSE IF Head(t) = ">" THEN <<"&", "g", "t", ";">>
        ELSE <<Head(t)>>) \o escaped(Tail(t))

\* the lines with a line break between two of them
RECURSIVE broken(_)
broken(ls) ==
  IF ls = <<>> THEN <<>>
  ELSE IF Len(ls) = 1 THEN ls[1]
  ELSE ls[1] \o <<"\n">> \o broken(Tail(ls))

PreCode == <<"<", "p", "r", "e", ">", "<", "c", "o", "d", "e", ">">>

\* what stands between each '<pre><code>' of an output and the next '<'
RECURSIVE preContents(_)
preContents(h) ==
  IF Len(h) < Len(PreCode) THEN <<>>
  ELSE IF SubSeq(h, 1, Len(PreCode)) = PreCode
  THEN LET rest == SubSeq(h, Len(PreCode) + 1, Len(h))
           n == CHOOSE k \in 0..Len(rest) :
                  /\ \A j \in 1..k : rest[j] # "<"
                  /\ k = Len(rest) \/ rest[k + 1] = "<"
       IN  <<SubSeq(rest, 1, n)>> \o preContents(SubSeq(rest, n + 1, Len(rest)))
  ELSE preContents(Tail(h))

fenceLinesAt(ls) == {i \in 1..Len(ls) : IsFenceLine(ls[i])}

\* the lines after the k-th opening fence, up to the next fence line or the end
codeSection(ls, k) ==
  LET F == fenceLinesAt(ls)
      from == nth(F, 2 * k - 1)
      to == IF Cardinality(F) >= 2 * k THEN nth(F, 2 * k) ELSE Len(ls) + 1
  IN  SubSeq(ls, from + 1, to - 1)

\* the lines outside code blocks that are no fence lines
linesOutsideCode(ls) ==
  {i \in 1..Len(ls) : ~IsFenceLine(ls[i]) /\ fencesBefore(ls, i) % 2 = 0}

\* the tags that open a heading, a list item, a paragraph or a gap element
IsElementStart(t) == t \in BlockStarts \/ IsGapStart(t) \/ t = <<"<", "l", "i", ">">>

(***************************************************************************)
(* C21: in markdownToHtml a line that starts with three backticks toggles  *)
(* the code-block state.  The output has one <pre><code> block for each    *)
(* opening fence, and the k-th block holds the lines after the k-th        *)
(* opening fence up to the next fence line or the end of the input, as     *)
(* they were written, escaped, with line breaks between them.  Headings,   *)
(* list items, paragraphs and gap elements come from the lines outside     *)
(* code blocks only, one for each.                                         *)
(***************************************************************************)
C21_CodeLinesVerbatim ==
  LET ls == split(removeCr(text), "\n")
      pres == preContents(html)
      ts == tagsOf(html)
  IN  pc = "markdownToHtml" =>
        /\ Len(pres) = (Cardinality(fenceLinesAt(ls)) + 1) \div 2
        /\ \A k \in 1..Len(pres) : pres[k] = escaped(broken(codeSection(ls, k)))
        /\ Cardinality({k \in 1..Len(ts) : IsElementStart(ts[k])})
             = Cardinality(linesOutsideCode(ls))

\* a heading line and text to escape after a fence that is never closed
C21_Witness ==
  /\ pc = "markdownToHtml"
  /\ text = <<"U+0060", "U+0060", "U+0060", "j", "s", "\n", "#", " ", "T", "\n",
              "p", " ", "<", "&", ">">>
  /\ html = PreCode \o <<"#", " ", "T", "\n", "p", " ", "&", "l", "t", ";",
                         "&", "a", "m", "p", ";", "&", "g", "t", ";">>
              \o <<"<", "/", "c", "o", "d", "e", ">", "<", "/", "p", "r", "e", ">">>

\* the opening tag of a generated link
IsAnchorStart(t) == Len(t) >= 3 /\ SubSeq(t, 1, 3) = <<"<", "a", " ">>

ElementNames ==
  { <<"u", "l">>, <<"o", "l">>, <<"l", "i">>, <<"p">>, <<"p", "r", "e">>,
    <<"c", "o", "d", "e">>, <<"s", "t", "r", "o", "n", "g">>, <<"e", "m">>,
    <<"h", "1">>, <<"h", "2">>, <<"h", "3">>, <<"h", "4">>, <<"h", "5">>, <<"h", "6">> }

\* the tags markdownToHtml writes, the opening tag of a link aside
FixedTags ==
  {<<"<">> \o n \o <<">">> : n \in ElementNames}
    \cup {<<"<", "/">> \o n \o <<">">> : n \in ElementNames \cup {<<"a">>, <<"d", "i", "v">>}}
    \cup {SubSeq(gapElement, 1, 20)}

\* the character references escapeHtml writes
IsReferenceAt(h, i) ==
  \E r \in {<<"&", "a", "m", "p", ";">>, <<"&", "l", "t", ";">>, <<"&", "g", "t", ";">>} :
    i + Len(r) - 1 <= Len(h) /\ SubSeq(h, i, i + Len(r) - 1) = r

occurrences(s, c) == Cardinality({i \in 1..Len(s) : s[i] = c})

(***************************************************************************)
(* C28: text of the input cannot break out of the markup markdownToHtml    *)
(* generates.  Every '&' of the output starts a character reference, every *)
(* '<' and '>' of the output belongs to a tag the renderer writes, and the *)
(* opening tag of a link holds the six double quotes of its three          *)
(* attributes and no other, so the URL adds no attribute.                  *)
(***************************************************************************)
C28_InputStaysInsideMarkup ==
  LET ts == tagsOf(html)
  IN  pc = "markdownToHtml" =>
        /\ \A i \in 1..Len(html) : html[i] = "&" => IsReferenceAt(html, i)
        /\ occurrences(html, "<") = Len(ts)
        /\ occurrences(html, ">") = Len(ts)
        /\ \A k \in 1..Len(ts) :
             IF IsAnchorStart(ts[k]) THEN occurrences(ts[k], "\"") = 6
             ELSE ts[k] \in FixedTags

\* the kind of block a trimmed line belongs to
blockKindOf(l) ==
  IF ruleOf(l) = "heading" THEN "heading"
  ELSE IF ruleOf(l) = "bullet" THEN "ul"
  ELSE IF ruleOf(l) = "numbered" THEN "ol"
  ELSE IF ruleOf(l) = "label" THEN "labeled"
  ELSE "paragraph"

\* the kinds of the blocks of the lines, in source order: a heading and a label
\* line are blocks of their own, lines of one kind that follow each other without
\* a blank line are one list or one paragraph; prev is the kind of the line before
RECURSIVE kindsInSourceOrder(_, _)
kindsInSourceOrder(ls, prev) ==
  IF ls = <<>> THEN <<>>
  ELSE IF Head(ls) = <<>> THEN kindsInSourceOrder(Tail(ls), "none")
  ELSE LET k == blockKindOf(Head(ls))
       IN  IF k \in {"heading", "labeled"} THEN <<k>> \o kindsInSourceOrder(Tail(ls), "none")
           ELSE IF k = prev THEN kindsInSourceOrder(Tail(ls), k)
           ELSE <<k>> \o kindsInSourceOrder(Tail(ls), k)

kindOfBlock(b) == IF IsLabeled(b) THEN "labeled" ELSE b.type

(***************************************************************************)
(* C23: createDocumentBlocks returns the blocks in source order.  The      *)
(* kinds of the blocks are the kinds of the lines in input order, a run of *)
(* lines of one kind counted once: a plain line after a list item gives a  *)
(* paragraph after that list, and the list items before and after a plain  *)
(* line are two lists.                                                     *)
(***************************************************************************)
C23_BlocksInSourceOrder ==
  pc = "createDocumentBlocks" =>
    [k \in 1..Len(blocks) |-> kindOfBlock(blocks[k])]
      = kindsInSourceOrder(trimmedLines(text), "none")

\* the number of lines, from the first on, whose space-joined text is t; 0 if none
piecesOf(t, lines) ==
  LET M == {m \in 1..Len(lines) : spaced(SubSeq(lines, 1, m)) = t}
  IN  IF M = {} THEN 0 ELSE CHOOSE m \in M : TRUE

\* the number of lines joined in each text, the lines taken in order; a text
\* that is no join of the next lines, and lines that are left over, count as -1
RECURSIVE joinedPieces(_, _)
joinedPieces(texts, lines) ==
  IF texts = <<>> THEN (IF lines = <<>> THEN <<>> ELSE <<-1>>)
  ELSE LET m == piecesOf(Head(texts), lines)
       IN  IF m = 0 THEN <<-1>>
           ELSE <<m>> \o joinedPieces(Tail(texts), SubSeq(lines, m + 1, Len(lines)))

RECURSIVE sum(_)
sum(ns) == IF ns = <<>> THEN 0 ELSE Head(ns) + sum(Tail(ns))

(***************************************************************************)
(* C24: createDocumentBlocks loses no line.  The paragraphs without label  *)
(* are, in order, the space-joined groups of the plain lines, every plain  *)
(* line in exactly one group, and the number of headings plus list items   *)
(* plus labeled paragraphs plus joined paragraph lines is the number of    *)
(* non-blank lines of the input.                                           *)
(***************************************************************************)
C24_NoLineLost ==
  LET ls == markdownLines(text)
      plain == SelectSeq(blocks, IsPlainBlock)
      pieces == joinedPieces([j \in 1..Len(plain) |-> plain[j].text],
                             SelectSeq(ls, IsPlainRule))
  IN  pc = "createDocumentBlocks" =>
        /\ \A j \in 1..Len(pieces) : pieces[j] >= 1
        /\ Len(SelectSeq(blocks, IsHeadingBlock))
             + Len(allItems(SelectSeq(blocks, IsListBlock)))
             + Len(SelectSeq(blocks, IsLabeled))
             + sum(pieces)
           = Len(ls)

\* two plain lines joined in one paragraph, then a label line
C24_Witness ==
  /\ pc = "createDocumentBlocks"
  /\ text = <<"p", "q", "\n", "p", "q", "\n", "a", "b", ":", " ", "v">>
  /\ blocks = <<ParagraphBlock(<<"p", "q", " ", "p", "q">>, <<>>),
                ParagraphBlock(<<"v">>, <<"a", "b">>)>>

\* the kind the cues of a content stand for, the earlier cue first
kindOfCues(c) ==
  IF CueHash(c) \/ CuePipeRow(c) THEN "markdown"
  ELSE IF CueDelimiter(c) THEN "excel"
  ELSE IF CueBullet(c) /\ CueBlankRun(c) THEN "powerpoint"
  ELSE "text"

(***************************************************************************)
(* C29: a file name without '.' has no extension.  detectKind classifies   *)
(* such a file by the cues of its content only, so the kind is the one of  *)
(* a file with an empty name and the same content, whatever the name is.   *)
(***************************************************************************)
C29_NoDotNoExtension ==
  (pc = "detectKind" /\ ~includes(fileName, ".")) => kind = kindOfCues(text)

(***************************************************************************)
(* slidesToOutline and the way of a slide list through the outline: the    *)
(* Markdown to PowerPoint direction writes the outline, the PowerPoint to  *)
(* Markdown direction reads it.                                            *)
(***************************************************************************)
\* `${slide.title}\n${bullets}`, bullets the lines `- ${bullet}`
outlineOfSlide(slide) ==
  LET bullets == join([k \in 1..Len(slide.bullets) |-> <<"-", " ">> \o slide.bullets[k]],
                      <<"\n">>)
  IN  slide.title \o <<"\n">> \o bullets

slidesToOutline(ss) ==
  join([k \in 1..Len(ss) |-> outlineOfSlide(ss[k])], <<"\n", "\n">>)

\* channel powerpoint, fromMarkdown: no outline is written for an empty slide list
SlidesToOutline ==
  /\ pc = "markdownToSlides"
  /\ slides # <<>>
  /\ outline' = slidesToOutline(slides)
  /\ pc' = "slidesToOutline"
  /\ UNCHANGED <<fileName, text, table, csv, markdown, tableAgain, blocks, blocksAgain, slides, kind, html, slidesAgain, ui>>

\* channel powerpoint, toMarkdown, on the outline written before
ParseOutlineAgain ==
  /\ pc = "slidesToOutline"
  /\ slidesAgain' = parseSlidesFromOutline(outline)
  /\ pc' = "slidesAgain"
  /\ UNCHANGED <<fileName, text, table, csv, markdown, tableAgain, blocks, blocksAgain, slides, kind, html, outline, ui>>

InitSlidesOutline == InitSlides

NextSlidesOutline == MarkdownToSlides \/ SlidesToOutline \/ ParseOutlineAgain

SpecSlidesOutline == InitSlidesOutline /\ [][NextSlidesOutline]_vars

(***************************************************************************)
(* C27: slides survive the way from Markdown to the outline.  The outline  *)
(* of the slides markdownToSlides returns is parsed back into the same     *)
(* slides: as many, with the same titles and the same bullets in order.    *)
(***************************************************************************)
C27_SlidesSurviveOutline ==
  pc = "slidesAgain" => slidesAgain = slides

(***************************************************************************)
(* The component: its handlers, the watcher on the direction and the two   *)
(* kinds, and the two asynchronous operations, the read of a file and the  *)
(* fetch of a link.  A toast is one token.  The job of the watcher is      *)
(* flushed before the next event, so no handler runs while it is queued.   *)
(***************************************************************************)
\* the direction or a kind was set to another value: the watcher is queued
watched(direction, source, target) ==
  watcherQueued \/ <<direction, source, target>> # <<conversionDirection, sourceKind, targetKind>>

\* mutant: the source is always marked as a sample
setSourceMarked(t, name, markSample) ==
  /\ sourceText' = t
  /\ inputFileName' = name
  /\ isUsingSample' = TRUE

\* setSource(text, name, markSample)
setSource(t, name, markSample) ==
  /\ sourceText' = t
  /\ inputFileName' = name
  /\ isUsingSample' = markSample

\* scheduled by the watch of lines 346-356: the callback, run by the flush
WatchCallback ==
  /\ watcherQueued
  /\ IF isUsingSample
     THEN LET sample == currentSample(conversionDirection, sourceKind, targetKind)
          IN  setSource(sample.text, sample.fileName, TRUE)
     ELSE UNCHANGED <<sourceText, inputFileName, isUsingSample>>
  /\ watcherQueued' = FALSE
  /\ pc' = "watch"
  /\ UNCHANGED <<conversionDirection, sourceKind, targetKind, toastMessage, isFetchingRemote,
                 remoteUrl, file, response>>
  /\ UNCHANGED <<fileName, text, kind, table, csv, markdown, tableAgain, blocks, blocksAgain, slides, html, outline, slidesAgain>>

\* setTimeout(() => { toastMessage.value = '' }, 3200)
ToastTimer ==
  /\ ~watcherQueued
  /\ toastMessage # <<>>
  /\ toastMessage' = <<>>
  /\ pc' = "toastTimer"
  /\ UNCHANGED <<conversionDirection, sourceKind, targetKind, sourceText, inputFileName,
                 isFetchingRemote, isUsingSample, remoteUrl, file, response, watcherQueued>>
  /\ UNCHANGED <<fileName, text, kind, table, csv, markdown, tableAgain, blocks, blocksAgain, slides, html, outline, slidesAgain>>

ChangeDirection ==
  /\ ~watcherQueued
  /\ \E direction \in Directions :
       IF conversionDirection = direction THEN UNCHANGED ui
       ELSE LET sample == currentSample(direction, sourceKind, targetKind)
            IN  /\ conversionDirection' = direction
                /\ setSource(sample.text, sample.fileName, TRUE)
                /\ toastMessage' = <<"direction switched">>
                /\ watcherQueued' = TRUE
                /\ UNCHANGED <<sourceKind, targetKind, isFetchingRemote, remoteUrl, file, response>>
  /\ pc' = "changeDirection"
  /\ UNCHANGED <<fileName, text, kind, table, csv, markdown, tableAgain, blocks, blocksAgain, slides, html, outline, slidesAgain>>

\* the kinds the user clicks on
ClickedKinds == {"word", "excel"}

SelectSourceKind ==
  /\ ~watcherQueued
  /\ \E k \in ClickedKinds :
       IF sourceKind = k THEN UNCHANGED ui
       ELSE LET sample == currentSample(conversionDirection, k, targetKind)
            IN  /\ sourceKind' = k
                /\ setSource(sample.text, sample.fileName, TRUE)
                /\ toastMessage' = <<"source kind selected">>
                /\ watcherQueued' = TRUE
                /\ UNCHANGED <<conversionDirection, targetKind, isFetchingRemote, remoteUrl, file, response>>
  /\ pc' = "selectSourceKind"
  /\ UNCHANGED <<fileName, text, kind, table, csv, markdown, tableAgain, blocks, blocksAgain, slides, html, outline, slidesAgain>>

SelectTargetKind ==
  /\ ~watcherQueued
  /\ \E k \in ClickedKinds :
       IF targetKind = k THEN UNCHANGED ui
       ELSE LET sample == currentSample(conversionDirection, sourceKind, k)
            IN  /\ targetKind' = k
                /\ setSource(sample.text, sample.fileName, TRUE)
                /\ toastMessage' = <<"target kind selected">>
                /\ watcherQueued' = TRUE
                /\ UNCHANGED <<conversionDirection, sourceKind, isFetchingRemote, remoteUrl, file, response>>
  /\ pc' = "selectTargetKind"
  /\ UNCHANGED <<fileName, text, kind, table, csv, markdown, tableAgain, blocks, blocksAgain, slides, html, outline, slidesAgain>>

\* what the user types: v-model writes the text, then @input runs the handler
TypedTexts == {<<"m", "y">>}

HandleSourceInput ==
  /\ ~watcherQueued
  /\ sourceText' \in TypedTexts
  /\ isUsingSample' = FALSE
  /\ pc' = "handleSourceInput"
  /\ UNCHANGED <<conversionDirection, sourceKind, targetKind, inputFileName, toastMessage,
                 isFetchingRemote, remoteUrl, file, response, watcherQueued>>
  /\ UNCHANGED <<fileName, text, kind, table, csv, markdown, tableAgain, blocks, blocksAgain, slides, html, outline, slidesAgain>>

FillSample ==
  /\ ~watcherQueued
  /\ LET sample == currentSample(conversionDirection, sourceKind, targetKind)
     IN  setSource(sample.text, sample.fileName, TRUE)
  /\ toastMessage' = <<"sample filled">>
  /\ pc' = "fillSample"
  /\ UNCHANGED <<conversionDirection, sourceKind, targetKind, isFetchingRemote, remoteUrl,
                 file, response, watcherQueued>>
  /\ UNCHANGED <<fileName, text, kind, table, csv, markdown, tableAgain, blocks, blocksAgain, slides, html, outline, slidesAgain>>

\* the characters of a kind
kindName(k) ==
  IF k = "word" THEN <<"w", "o", "r", "d">>
  ELSE IF k = "excel" THEN <<"e", "x", "c", "e", "l">>
  ELSE IF k = "powerpoint" THEN <<"p", "o", "w", "e", "r", "p", "o", "i", "n", "t">>
  ELSE <<"t", "e", "x", "t">>

\* name || 'document.md', name || `${nextKind}.txt`
nameOr(name, detected) ==
  IF name # <<>> THEN name
  ELSE IF detected = "markdown" THEN <<"d", "o", "c", "u", "m", "e", "n", "t", ".", "m", "d">>
  ELSE kindName(detected) \o <<".", "t", "x", "t">>

\* the toast applyDetection shows
detectionToast(name, content) ==
  IF detectKind(name, content) = "markdown" THEN <<"detected Markdown">>
  ELSE <<"detected a document">>

\* applyDetection(name, text) without its toast; text keeps the text it was
\* called with
applyDetection(name, content) ==
  LET detected == detectKind(name, content)
  IN  /\ text' = content
      /\ conversionDirection' = IF detected = "markdown" THEN "from-markdown" ELSE "to-markdown"
      /\ sourceKind' = IF detected = "markdown" THEN sourceKind ELSE detected
      /\ setSource(content, nameOr(name, detected), FALSE)
      /\ watcherQueued' = watched(conversionDirection', sourceKind', targetKind)
      /\ UNCHANGED targetKind

\* the files the user uploads or drops
Files ==
  { [name |-> <<"a", ".", "m", "d">>, text |-> <<"h", "i">>],
    [name |-> <<"n", "o", "t", "e", "s">>, text |-> <<"-", " ", "a", "\n", "\n", "b">>] }

\* handleFileUpload, handleDrop: processFile up to await file.text()
ProcessFile ==
  /\ ~watcherQueued
  /\ ~file.pending
  /\ \E f \in Files : file' = [name |-> f.name, text |-> f.text, pending |-> TRUE]
  /\ pc' = "processFile"
  /\ UNCHANGED <<conversionDirection, sourceKind, targetKind, sourceText, inputFileName,
                 toastMessage, isFetchingRemote, isUsingSample, remoteUrl, response, watcherQueued>>
  /\ UNCHANGED <<fileName, text, kind, table, csv, markdown, tableAgain, blocks, blocksAgain, slides, html, outline, slidesAgain>>

\* file.text() is fulfilled: applyDetection(file.name, text)
FileRead ==
  /\ ~watcherQueued
  /\ file.pending
  /\ applyDetection(file.name, file.text)
  /\ toastMessage' = detectionToast(file.name, file.text)
  /\ file' = NoFile
  /\ pc' = "applyDetection"
  /\ UNCHANGED <<isFetchingRemote, remoteUrl, response>>
  /\ UNCHANGED <<fileName, kind, table, csv, markdown, tableAgain, blocks, blocksAgain, slides, html, outline, slidesAgain>>

\* file.text() is rejected: the catch of processFile
FileReadFails ==
  /\ ~watcherQueued
  /\ file.pending
  /\ toastMessage' = <<"file read failed">>
  /\ file' = NoFile
  /\ pc' = "readFailed"
  /\ UNCHANGED <<conversionDirection, sourceKind, targetKind, sourceText, inputFileName,
                 isFetchingRemote, isUsingSample, remoteUrl, response, watcherQueued>>
  /\ UNCHANGED <<fileName, text, kind, table, csv, markdown, tableAgain, blocks, blocksAgain, slides, html, outline, slidesAgain>>

\* s.includes(sub) for a string sub
hasSubstring(s, sub) ==
  \E i \in 1..(Len(s) - Len(sub) + 1) : SubSeq(s, i, i + Len(sub) - 1) = sub

deriveFileNameFromUrl(url, contentType) ==
  LET cleanUrl == split(split(url, "?")[1], "#")[1]
      slashes == {i \in 1..Len(cleanUrl) : cleanUrl[i] = "/"}
      last == IF slashes = {} THEN 0 ELSE CHOOSE i \in slashes : \A j \in slashes : j <= i
      tail == SubSeq(cleanUrl, last + 1, Len(cleanUrl))
  IN  IF tail # <<>> THEN tail
      ELSE IF hasSubstring(contentType, <<"m", "a", "r", "k", "d", "o", "w", "n">>) THEN <<"d", "o", "c", "u", "m", "e", "n", "t", ".", "m", "d">>
      ELSE IF hasSubstring(contentType, <<"c", "s", "v">>) THEN <<"s", "h", "e", "e", "t", ".", "c", "s", "v">>
      ELSE IF hasSubstring(contentType, <<"m", "s", "w", "o", "r", "d">>) THEN <<"d", "o", "c", "u", "m", "e", "n", "t", ".", "d", "o", "c", "x">>
      ELSE <<"c", "o", "n", "t", "e", "n", "t", ".", "t", "x", "t">>

\* what the user types into the link field
Urls ==
  { <<>>,
    <<"h", "/", "a", ".", "m", "d", "?", "v", "#", "x">>,
    <<"h", "/">> }

\* v-model="remoteUrl"
TypeRemoteUrl ==
  /\ ~watcherQueued
  /\ remoteUrl' \in Urls
  /\ remoteUrl' # remoteUrl
  /\ pc' = "remoteUrl"
  /\ UNCHANGED <<conversionDirection, sourceKind, targetKind, sourceText, inputFileName,
                 toastMessage, isFetchingRemote, isUsingSample, file, response, watcherQueued>>
  /\ UNCHANGED <<fileName, text, kind, table, csv, markdown, tableAgain, blocks, blocksAgain, slides, html, outline, slidesAgain>>

\* openRemoteFile up to await fetch(...); the button is disabled while a fetch runs
OpenRemoteFile ==
  /\ ~watcherQueued
  /\ ~isFetchingRemote
  /\ IF trim(remoteUrl) = <<>>
     THEN /\ toastMessage' = <<"link missing">>
          /\ UNCHANGED <<isFetchingRemote, response>>
     ELSE /\ isFetchingRemote' = TRUE
          /\ response' = [stage |-> "fetch", contentType |-> <<>>]
          /\ UNCHANGED toastMessage
  /\ pc' = "openRemoteFile"
  /\ UNCHANGED <<conversionDirection, sourceKind, targetKind, sourceText, inputFileName,
                 isUsingSample, remoteUrl, file, watcherQueued>>
  /\ UNCHANGED <<fileName, text, kind, table, csv, markdown, tableAgain, blocks, blocksAgain, slides, html, outline, slidesAgain>>

\* mutant: a catch without the finally
fetchFailedBusy ==
  /\ toastMessage' = <<"remote content failed">>
  /\ response' = NoResponse
  /\ pc' = "fetchFailed"
  /\ UNCHANGED <<conversionDirection, sourceKind, targetKind, sourceText, inputFileName,
                 isFetchingRemote, isUsingSample, remoteUrl, file, watcherQueued>>
  /\ UNCHANGED <<fileName, text, kind, table, csv, markdown, tableAgain, blocks, blocksAgain, slides, html, outline, slidesAgain>>

\* the catch and the finally of openRemoteFile
fetchFailed ==
  /\ toastMessage' = <<"remote content failed">>
  /\ isFetchingRemote' = FALSE
  /\ response' = NoResponse
  /\ pc' = "fetchFailed"
  /\ UNCHANGED <<conversionDirection, sourceKind, targetKind, sourceText, inputFileName,
                 isUsingSample, remoteUrl, file, watcherQueued>>
  /\ UNCHANGED <<fileName, text, kind, table, csv, markdown, tableAgain, blocks, blocksAgain, slides, html, outline, slidesAgain>>

\* fetch(...) is rejected, or fulfilled with a response that is not ok and
\* line 513 throws
FetchFails ==
  /\ ~watcherQueued
  /\ response.stage = "fetch"
  /\ fetchFailed

ContentTypes == {<<>>, <<"t", "e", "x", "t", "/", "c", "s", "v">>}
Bodies == {<<"#", " ", "t">>}

\* fetch(...) is fulfilled with an ok response: up to await response.text()
ResponseOk ==
  /\ ~watcherQueued
  /\ response.stage = "fetch"
  /\ \E contentType \in ContentTypes :
       response' = [stage |-> "text", contentType |-> contentType]
  /\ pc' = "fetch"
  /\ UNCHANGED <<conversionDirection, sourceKind, targetKind, sourceText, inputFileName,
                 toastMessage, isFetchingRemote, isUsingSample, remoteUrl, file, watcherQueued>>
  /\ UNCHANGED <<fileName, text, kind, table, csv, markdown, tableAgain, blocks, blocksAgain, slides, html, outline, slidesAgain>>

\* response.text() is rejected
BodyRejected ==
  /\ ~watcherQueued
  /\ response.stage = "text"
  /\ fetchFailed

\* response.text() is fulfilled: applyDetection(name, text), whose toast the
\* toast of line 519 replaces, and the finally
BodyRead ==
  /\ ~watcherQueued
  /\ response.stage = "text"
  /\ \E body \in Bodies :
       applyDetection(deriveFileNameFromUrl(trim(remoteUrl), response.contentType), body)
  /\ toastMessage' = <<"imported from link">>
  /\ isFetchingRemote' = FALSE
  /\ response' = NoResponse
  /\ pc' = "applyDetection"
  /\ UNCHANGED <<remoteUrl, file>>
  /\ UNCHANGED <<fileName, kind, table, csv, markdown, tableAgain, blocks, blocksAgain, slides, html, outline, slidesAgain>>

InitUi ==
  /\ pc = "setup"
  /\ text = <<>>
  /\ Idle

NextUi ==
  \/ WatchCallback
  \/ ToastTimer
  \/ ChangeDirection
  \/ SelectSourceKind
  \/ SelectTargetKind
  \/ HandleSourceInput
  \/ FillSample
  \/ ProcessFile
  \/ FileRead
  \/ FileReadFails
  \/ TypeRemoteUrl
  \/ OpenRemoteFile
  \/ FetchFails
  \/ ResponseOk
  \/ BodyRejected
  \/ BodyRead

SpecUi == InitUi /\ [][NextUi]_vars

(***************************************************************************)
(* C22: a failed file read and a failed fetch (fetch rejected, response    *)
(* not ok, body not read) leave sourceText, inputFileName, the direction   *)
(* and the two kinds unchanged and show a toast; and isFetchingRemote is   *)
(* false after every call of openRemoteFile that has completed.            *)
(***************************************************************************)
C22_FailureKeepsSource ==
  [][ /\ pc' \in {"readFailed", "fetchFailed"} =>
           /\ UNCHANGED <<sourceText, inputFileName, conversionDirection, sourceKind, targetKind>>
           /\ toastMessage' # <<>>
      /\ (response.stage # "none" /\ response'.stage = "none") => ~isFetchingRemote'
      /\ (pc' = "openRemoteFile" /\ response'.stage = "none") => ~isFetchingRemote' ]_vars

\* the body of a response could not be read while the user's own text was in
\* the source
C22_Witness ==
  /\ pc = "fetchFailed"
  /\ toastMessage = <<"remote content failed">>
  /\ ~isFetchingRemote
  /\ ~isUsingSample
  /\ sourceText = <<"m", "y">>
  /\ conversionDirection = "from-markdown"

(***************************************************************************)
(* C25: the watcher never replaces imported content with a sample.  After  *)
(* applyDetection(name, text) the source holds text and is not marked as a *)
(* sample, and the callback of the watcher that runs next leaves it so,    *)
(* whichever direction or kind the detection switched to.                  *)
(***************************************************************************)
C25_ImportSurvivesWatcher ==
  [][ /\ pc' = "applyDetection" => (sourceText' = text' /\ ~isUsingSample')
      /\ (pc = "applyDetection" /\ pc' = "watch") =>
           (sourceText' = text /\ ~isUsingSample') ]_vars

\* a.md was read in the first direction: the detection switched the direction,
\* the callback of the watcher has run, and the text of the file is the source
C25_Witness ==
  /\ pc = "watch"
  /\ conversionDirection = "from-markdown"
  /\ text = <<"h", "i">>
  /\ sourceText = text
  /\ inputFileName = <<"a", ".", "m", "d">>
  /\ ~isUsingSample

(***************************************************************************)
(* C26: a sample never overwrites what the user provided.  While           *)
(* isUsingSample is false, changeDirection, selectSourceKind and           *)
(* selectTargetKind leave sourceText and inputFileName unchanged.          *)
(***************************************************************************)
C26_SampleKeepsUserContent ==
  [][ ( /\ ~isUsingSample
        /\ pc' \in {"changeDirection", "selectSourceKind", "selectTargetKind"} )
      => UNCHANGED <<sourceText, inputFileName>> ]_vars

(***************************************************************************)
(* The whole model: any of the inputs above, any of the operations.        *)
(***************************************************************************)
Init ==
  \/ InitTable
  \/ InitMdTable
  \/ InitDoc
  \/ InitDetect
  \/ InitBlank
  \/ InitSlides
  \/ InitOutline
  \/ InitMdText
  \/ InitTableMd
  \/ InitHtml
  \/ InitSlidesOutline
  \/ InitUi

Next ==
  \/ NextTable
  \/ NextMdTable
  \/ NextDoc
  \/ NextDetect
  \/ NextBlank
  \/ NextSlides
  \/ NextOutline
  \/ NextMdText
  \/ NextTableMd
  \/ NextHtml
  \/ NextSlidesOutline
  \/ NextUi

Spec == Init /\ [][Next]_vars

====
